---- MODULE Spec2Model ----
(***************************************************************************)
(* Model of evo-kernel-agent-update: the two-strategy commit pipeline      *)
(* (git.rs: commit_file, commit_via_gh_cli, commit_via_local_git) and the  *)
(* apply / config-sync phases of the driver (main.rs: on_pipeline).        *)
(*                                                                         *)
(* External programs (gh, git, the file system, king) are the environment: *)
(* every call to one of them returns one of the outcomes the code          *)
(* distinguishes, chosen nondeterministically.                             *)
(***************************************************************************)
EXTENDS Integers, Sequences, FiniteSets, TLC

\* ------------------------------------------------------------------ bounds

\* Number of commit_file invocations a direct caller makes.
MaxCalls == 2
\* Number of writes by other parties to the remote repositories.
MaxRemoteChanges == 1
\* Length of the driver's pending_updates list.
MaxPending == 2
\* Number of fields of the generated version strings.
MaxFields == 3
\* Number of text pieces a generated workflow file is made of.
MaxPieces == 4
\* Number of lines of a generated manifest.
MaxLines == 3

\* ------------------------------------------------------------- the universe

Repos == {"r1", "r2"}
Files == {"Cargo.toml", "ci.yml"}

\* File contents: the content before the run, the patched content a caller
\* commits, a content written by another party, and a partially written file.
OldContent == "old"
NewContent == "new"
OtherContent == "other"
Truncated == "trunc"
Contents == {OldContent, NewContent, OtherContent, Truncated}

None == "None"

\* Outcomes of running an external command with Command::output()/status():
\* the process could not be spawned (Err), it exited non-zero, it exited zero.
SpawnErr == "spawn_err"
NonZero == "nonzero"
ExitOk == "ok"
Outcomes == {SpawnErr, NonZero, ExitOk}

\* ------------------------------------------------------------ text helpers
\* Command output is a sequence of characters; identifiers are short
\* character sequences.

IsWhitespace(c) == c \in {" ", "\n"}

RECURSIVE TrimStart(_)
TrimStart(s) ==
    IF s = <<>> THEN <<>>
    ELSE IF IsWhitespace(Head(s)) THEN TrimStart(Tail(s)) ELSE s

RECURSIVE TrimEnd(_)
TrimEnd(s) ==
    IF s = <<>> THEN <<>>
    ELSE IF IsWhitespace(s[Len(s)]) THEN TrimEnd(SubSeq(s, 1, Len(s) - 1)) ELSE s

\* str::trim
Trim(s) == TrimEnd(TrimStart(s))

RECURSIVE TrimStartMatches(_, _)
TrimStartMatches(s, ch) ==
    IF s = <<>> THEN <<>>
    ELSE IF Head(s) = ch THEN TrimStartMatches(Tail(s), ch) ELSE s

RECURSIVE TrimEndMatches(_, _)
TrimEndMatches(s, ch) ==
    IF s = <<>> THEN <<>>
    ELSE IF s[Len(s)] = ch THEN TrimEndMatches(SubSeq(s, 1, Len(s) - 1), ch) ELSE s

\* str::trim_matches
TrimMatches(s, ch) == TrimEndMatches(TrimStartMatches(s, ch), ch)

ToChar(n) ==
    CASE n = 0 -> "0" [] n = 1 -> "1" [] n = 2 -> "2" [] n = 3 -> "3"
      [] n = 4 -> "4" [] n = 5 -> "5" [] n = 6 -> "6" [] n = 7 -> "7"
      [] n = 8 -> "8" [] OTHER -> "9"

\* ------------------------------------------------------------ environment

\* The blob id the contents API reports for a file: a hash of its content.
BlobOf(c) == <<"b", c>>

\* The id of the n-th commit of a remote repository, as the API reports it.
CommitSha(n) == <<"c", ToChar(n)>>

\* `git rev-parse --short HEAD` for the n-th local commit of a checkout.
ShortHash(n) == <<"h", ToChar(n)>>

\* What `gh api ... --jq <field>` prints for a string field: the raw string
\* and a newline.
JqOutput(s) == s \o <<"\n">>

VARIABLES
    remote,         \* [Repos -> [files: [Files -> Contents], rev: Nat]]
    remoteChanges,  \* number of writes by other parties so far
    checkout,       \* [Repos -> working tree, index, HEAD of the local clone]
    calls,          \* number of commit_file invocations so far
    pc,             \* position inside commit_file
    args,           \* arguments of the running / last invocation
    blob_sha,       \* commit_via_gh_cli: the blob id read by the GET
    result,         \* what the invocation returned
    steps,          \* external steps the invocation has executed, in order
    landed,         \* commits the invocation has landed on a remote, in order
    pre,            \* remote and checkout as they were when it was called
    dpc,            \* position inside on_pipeline (phases 1, 2, 4 and 5)
    dry_run,
    pending_updates,
    idx,            \* index of the next pending update of the apply loop
    committed,
    errors,
    config_synced,
    sync_requests,  \* the responses to the POSTs to king's /admin/config-sync
    cur,            \* two concurrent invocations: the one whose state is in pc, args, ..
    parked,         \* two concurrent invocations: the state of the other one
    stage,          \* pure functions: how far the function under study was applied;
                    \* on_pipeline: the first or the second run
    input,          \* pure functions: the arguments; on_pipeline: the files of the
                    \* checkouts and the registry's answers
    output          \* pure functions: the values returned so far; on_pipeline:
                    \* the locals of phases 1 and 2

envVars == <<remote, remoteChanges, checkout>>
callVars == <<calls, pc, args, blob_sha, result, steps, landed, pre>>
driverVars == <<dpc, dry_run, pending_updates, idx, committed, errors, config_synced,
               sync_requests>>
parVars == <<cur, parked>>
fnVars == <<stage, input, output>>
vars == <<remote, remoteChanges, checkout, calls, pc, args, blob_sha,
          result, steps, landed, pre, dpc, dry_run, pending_updates, idx, committed,
          errors, config_synced, sync_requests, cur, parked, stage, input, output>>

\* ------------------------------------------------------------------ results

NoResult == [kind |-> "none", repo |-> None, file_path |-> None,
             strategy |-> None, sha |-> <<>>, error |-> None]

\* Ok(CommitResult { repo, file_path, strategy, sha })
OkResult(a, strategy, sha) ==
    [kind |-> "ok", repo |-> a.repo, file_path |-> a.file_path,
     strategy |-> strategy, sha |-> sha, error |-> None]

\* Err(anyhow::Error) with the outermost context
ErrResult(a, error) ==
    [kind |-> "err", repo |-> a.repo, file_path |-> a.file_path,
     strategy |-> None, sha |-> <<>>, error |-> error]

NoArgs == [repo |-> None, file_path |-> None, content |-> None, local_base |-> None]

\* One executed external step: its name, its outcome, and the identifier it
\* exchanged (GET: the blob id the API returned; PUT: the sha field sent).
Step(name, outcome, data) == [step |-> name, outcome |-> outcome, data |-> data]

\* ------------------------------------------------------------ initial state

CleanCheckout ==
    [wt |-> [f \in Files |-> OldContent],
     index |-> [f \in Files |-> OldContent],
     head |-> [f \in Files |-> OldContent],
     headId |-> 0,
     baseRev |-> 0]

EnvInit ==
    /\ remote = [r \in Repos |-> [files |-> [f \in Files |-> OldContent], rev |-> 0]]
    /\ remoteChanges = 0
    /\ checkout = [r \in Repos |-> CleanCheckout]

CallInit ==
    /\ calls = 0
    /\ pc = "idle"
    /\ args = NoArgs
    /\ blob_sha = <<>>
    /\ result = NoResult
    /\ steps = <<>>
    /\ landed = <<>>
    /\ pre = [remote |-> remote, checkout |-> checkout]

DriverOff ==
    /\ dpc = "none"
    /\ dry_run = FALSE
    /\ pending_updates = <<>>
    /\ idx = 1
    /\ committed = <<>>
    /\ errors = <<>>
    /\ config_synced = FALSE
    /\ sync_requests = <<>>

\* No second invocation runs beside the one in pc, args, ..
NotRunning ==
    [pc |-> "none", args |-> NoArgs, blob_sha |-> <<>>, result |-> NoResult,
     steps |-> <<>>, landed |-> <<>>]

ParOff ==
    /\ cur = 1
    /\ parked = NotRunning

\* No pure function is under study.
FnOff ==
    /\ stage = "none"
    /\ input = None
    /\ output = None

\* A caller that uses commit_file directly.
Init == EnvInit /\ CallInit /\ DriverOff /\ ParOff /\ FnOff

\* --------------------------------------------------------------- commit_file

\* Variant of Base: the file is written and git runs in one fixed checkout
\* (the working directory of the process), whatever path was supplied.
Base_ProcessCwd(a) == "r1"

\* The checkout a local_base path names.
Base(a) == a.local_base

\* Entry of commit_file: nothing has been attempted yet.
BeginCall(a) ==
    /\ calls' = calls + 1
    /\ args' = a
    /\ blob_sha' = <<>>
    /\ result' = NoResult
    /\ steps' = <<>>
    /\ landed' = <<>>
    /\ pre' = [remote |-> remote, checkout |-> checkout]
    /\ pc' = "gh_get"

\* Variant of FallbackPc: a failed gh attempt is tried again.
FallbackPc_Retry(a) == "gh_get"

\* Variant of FallbackPc: the local attempt starts whether or not a checkout
\* was supplied.
FallbackPc_IgnoresMissingBase(a) == "mkdir"

\* git.rs 66-79: the gh attempt failed; local_base.with_context(..)? returns
\* the error when no checkout was supplied, else the local attempt starts.
FallbackPc(a) == IF a.local_base = None THEN "done" ELSE "mkdir"

FallbackResult(a) ==
    IF a.local_base = None THEN ErrResult(a, "no_local_base") ELSE NoResult

\* git.rs 117-120: the blob id taken from the GET's standard output.
ParseBlobSha(stdout) == TrimMatches(Trim(stdout), "\"")

\* Variant of ParseCommitSha: the output is used as printed.
ParseCommitSha_Untrimmed(stdout) == stdout

\* git.rs 150-153: the commit id taken from the PUT's standard output.
ParseCommitSha(stdout) == TrimMatches(Trim(stdout), "\"")

\* Variant of PutShaField: the PUT carries the blob id the file has when the
\* PUT is sent, not the one the GET read.
PutShaField_Current == BlobOf(remote[args.repo].files[args.file_path])

\* git.rs 138: the sha field the PUT carries.
PutShaField == blob_sha

\* The contents API accepts an update only if its sha field is the blob id of
\* the file as it is now.
ApiAccepts(sha, r, f) == sha = BlobOf(remote[r].files[f])

\* A commit that reached a remote: where, the file content it carries, the
\* content it replaced, the backend, and the id the backend reports for it.
Landed(r, f, c, over, via, id) ==
    [repo |-> r, file |-> f, content |-> c, over |-> over, via |-> via, id |-> id]

\* git.rs 102-122: gh api repos/{repo}/contents/{file_path} --jq .sha
GhGet ==
    /\ pc = "gh_get"
    /\ \E out \in Outcomes :
         /\ steps' = Append(steps, Step("gh_get", out,
                IF out = ExitOk THEN BlobOf(remote[args.repo].files[args.file_path])
                ELSE <<>>))
         /\ IF out = ExitOk
            THEN /\ blob_sha' = ParseBlobSha(
                        JqOutput(BlobOf(remote[args.repo].files[args.file_path])))
                 /\ pc' = "gh_put"
                 /\ result' = result
            ELSE /\ blob_sha' = blob_sha
                 /\ pc' = FallbackPc(args)
                 /\ result' = FallbackResult(args)
    /\ UNCHANGED <<parVars, fnVars, envVars, calls, args, landed, pre, driverVars>>

\* git.rs 125-155 and 57-65: gh api --method PUT ... sha={blob_sha}
GhPut ==
    /\ pc = "gh_put"
    /\ \E out \in Outcomes :
         /\ out = ExitOk => ApiAccepts(PutShaField, args.repo, args.file_path)
         /\ steps' = Append(steps, Step("gh_put", out, PutShaField))
         /\ IF out = ExitOk
            THEN /\ remote' = [remote EXCEPT
                        ![args.repo].files[args.file_path] = args.content,
                        ![args.repo].rev = @ + 1]
                 /\ landed' = Append(landed,
                        Landed(args.repo, args.file_path, args.content,
                               remote[args.repo].files[args.file_path], "gh",
                               CommitSha(remote[args.repo].rev + 1)))
                 /\ result' = OkResult(args, "GhCli",
                        ParseCommitSha(JqOutput(CommitSha(remote[args.repo].rev + 1))))
                 /\ pc' = "done"
            ELSE /\ UNCHANGED <<remote, landed>>
                 /\ pc' = FallbackPc(args)
                 /\ result' = FallbackResult(args)
    /\ UNCHANGED <<parVars, fnVars, remoteChanges, checkout, calls, args, blob_sha, pre, driverVars>>

\* git.rs 81-82: any error of commit_via_local_git is returned with the
\* context "local git commit failed".
LocalFailed == ErrResult(args, "local_git_failed")

\* Outcomes of a file-system call: Ok or an io::Error.
FsOutcomes == {ExitOk, "io_err"}

\* git.rs 171-174: create_dir_all(parent)
LocalMkdir ==
    /\ pc = "mkdir"
    /\ \E out \in FsOutcomes :
         /\ steps' = Append(steps, Step("mkdir", out, <<>>))
         /\ IF out = ExitOk
            THEN pc' = "write" /\ result' = result
            ELSE pc' = "done" /\ result' = LocalFailed
    /\ UNCHANGED <<parVars, fnVars, envVars, calls, args, blob_sha, landed, pre, driverVars>>

\* git.rs 176-177: fs::write(full_path, content). A failed write leaves the
\* file as it was (it could not be opened) or truncated (it was opened).
LocalWrite ==
    /\ pc = "write"
    /\ \E out \in FsOutcomes :
         /\ steps' = Append(steps, Step("write", out, <<>>))
         /\ IF out = ExitOk
            THEN /\ checkout' = [checkout EXCEPT
                        ![Base(args)].wt[args.file_path] = args.content]
                 /\ pc' = "add"
                 /\ result' = result
            ELSE /\ \E left \in {checkout[Base(args)].wt[args.file_path], Truncated} :
                        checkout' = [checkout EXCEPT
                            ![Base(args)].wt[args.file_path] = left]
                 /\ pc' = "done"
                 /\ result' = LocalFailed
    /\ UNCHANGED <<parVars, fnVars, remote, remoteChanges, calls, args, blob_sha, landed, pre,
                   driverVars>>

\* Variant of RunGitOk: neither the spawn error nor the exit status is looked at.
RunGitOk_Always(out) == TRUE

\* Variant of RunGitOk: the exit status is not looked at.
RunGitOk_IgnoresExit(out) == out # SpawnErr

\* git.rs 200-211: run_git is Ok only when git was spawned and exited zero.
RunGitOk(out) == out = ExitOk

\* git.rs 180: git add <file_path>
GitAdd ==
    /\ pc = "add"
    /\ \E out \in Outcomes :
         /\ steps' = Append(steps, Step("add", out, <<>>))
         /\ checkout' = IF out = ExitOk
                THEN [checkout EXCEPT ![Base(args)].index[args.file_path] =
                          checkout[Base(args)].wt[args.file_path]]
                ELSE checkout
         /\ IF RunGitOk(out)
            THEN pc' = "commit" /\ result' = result
            ELSE pc' = "done" /\ result' = LocalFailed
    /\ UNCHANGED <<parVars, fnVars, remote, remoteChanges, calls, args, blob_sha, landed, pre,
                   driverVars>>

\* git.rs 183: git commit -m <message>. git exits zero only if the index
\* differs from HEAD; the commit holds everything that is staged.
GitCommit ==
    /\ pc = "commit"
    /\ \E out \in Outcomes :
         /\ out = ExitOk => checkout[Base(args)].index # checkout[Base(args)].head
         /\ steps' = Append(steps, Step("commit", out, <<>>))
         /\ checkout' = IF out = ExitOk
                THEN [checkout EXCEPT ![Base(args)].head = checkout[Base(args)].index,
                                      ![Base(args)].headId = @ + 1]
                ELSE checkout
         /\ IF RunGitOk(out)
            THEN pc' = "push" /\ result' = result
            ELSE pc' = "done" /\ result' = LocalFailed
    /\ UNCHANGED <<parVars, fnVars, remote, remoteChanges, calls, args, blob_sha, landed, pre,
                   driverVars>>

\* git.rs 186: git push. The remote accepts only a fast-forward: the checkout
\* must hold every commit of the remote.
GitPush ==
    /\ pc = "push"
    /\ \E out \in Outcomes :
         /\ out = ExitOk => checkout[Base(args)].baseRev = remote[Base(args)].rev
         /\ steps' = Append(steps, Step("push", out, <<>>))
         /\ IF out = ExitOk
            THEN /\ remote' = [remote EXCEPT
                        ![Base(args)].files = checkout[Base(args)].head,
                        ![Base(args)].rev = @ + 1]
                 /\ landed' = Append(landed,
                        Landed(Base(args), args.file_path,
                               checkout[Base(args)].head[args.file_path],
                               remote[Base(args)].files[args.file_path], "push",
                               ShortHash(checkout[Base(args)].headId)))
                 /\ checkout' = [checkout EXCEPT
                        ![Base(args)].baseRev = remote[Base(args)].rev + 1]
            ELSE UNCHANGED <<remote, landed, checkout>>
         /\ IF RunGitOk(out)
            THEN pc' = "revparse" /\ result' = result
            ELSE pc' = "done" /\ result' = LocalFailed
    /\ UNCHANGED <<parVars, fnVars, remoteChanges, calls, args, blob_sha, pre, driverVars>>

\* What `git rev-parse --short HEAD` prints: the short hash when it exits
\* zero, nothing otherwise.
RevParseStdout(out, c) ==
    IF out = ExitOk THEN ShortHash(c.headId) \o <<"\n">> ELSE <<>>

\* Variant of RevParseResult: the standard output is not what is returned.
RevParseResult_DropsStdout(out, c) ==
    IF out = SpawnErr THEN LocalFailed ELSE OkResult(args, "LocalGit", <<>>)

\* git.rs 189-196 and 84-90: Command::output() is Err only when git could not
\* be spawned; the exit status is not looked at.
RevParseResult(out, c) ==
    IF out = SpawnErr
    THEN LocalFailed
    ELSE OkResult(args, "LocalGit", Trim(RevParseStdout(out, c)))

\* git.rs 189-196: git rev-parse --short HEAD
GitRevParse ==
    /\ pc = "revparse"
    /\ \E out \in Outcomes :
         /\ steps' = Append(steps, Step("revparse", out, <<>>))
         /\ result' = RevParseResult(out, checkout[Base(args)])
         /\ pc' = "done"
    /\ UNCHANGED <<parVars, fnVars, envVars, calls, args, blob_sha, landed, pre, driverVars>>

\* Another party commits a change of the file a running invocation targets.
RemoteChange ==
    /\ remoteChanges < MaxRemoteChanges
    /\ pc \notin {"idle", "done"}
    /\ remote' = [remote EXCEPT ![args.repo].files[args.file_path] = OtherContent,
                                ![args.repo].rev = @ + 1]
    /\ remoteChanges' = remoteChanges + 1
    /\ UNCHANGED <<parVars, fnVars, checkout, callVars, driverVars>>

CommitFileStep ==
    \/ GhGet
    \/ GhPut
    \/ LocalMkdir
    \/ LocalWrite
    \/ GitAdd
    \/ GitCommit
    \/ GitPush
    \/ GitRevParse

\* A direct caller invokes commit_file, one invocation at a time.
Call ==
    /\ dpc = "none"
    /\ pc \in {"idle", "done"}
    /\ calls < MaxCalls
    /\ \E r \in Repos, f \in Files :
       \E base \in {None, r} :
         BeginCall([repo |-> r, file_path |-> f, content |-> NewContent,
                    local_base |-> base])
    /\ UNCHANGED <<parVars, fnVars, envVars, driverVars>>

Next ==
    \/ Call
    \/ CommitFileStep
    \/ RemoteChange

Spec == Init /\ [][Next]_vars

\* -------------------------------------------------- on_pipeline, phases 4-5

\* The order in which phase 2 visits the managed files: MANAGED_REPOS in
\* order, and per repository its cargo_files, then its workflow_files.
ScanOrder ==
    <<[repo |-> "r1", file_path |-> "Cargo.toml"],
      [repo |-> "r1", file_path |-> "ci.yml"],
      [repo |-> "r2", file_path |-> "Cargo.toml"],
      [repo |-> "r2", file_path |-> "ci.yml"]>>

\* PendingUpdate { repo, local_base, file_path, patched_content, .. }
PendingUpdate(t) ==
    [repo |-> t.repo, local_base |-> t.repo, file_path |-> t.file_path,
     patched_content |-> NewContent]

RECURSIVE Pick(_, _)
\* The pending updates phase 2 pushes when the files at positions S are stale.
Pick(S, i) ==
    IF i > Len(ScanOrder) THEN <<>>
    ELSE IF i \in S THEN <<PendingUpdate(ScanOrder[i])>> \o Pick(S, i + 1)
    ELSE Pick(S, i + 1)

PendingLists ==
    {Pick(S, 1) : S \in {T \in SUBSET (1..Len(ScanOrder)) : Cardinality(T) <= MaxPending}}

\* on_pipeline at the start of phase 4.
DriverInit ==
    /\ EnvInit
    /\ CallInit
    /\ dpc = "apply"
    /\ dry_run \in BOOLEAN
    /\ pending_updates \in PendingLists
    /\ idx = 1
    /\ committed = <<>>
    /\ errors = <<>>
    /\ config_synced = FALSE
    /\ sync_requests = <<>>
    /\ ParOff
    /\ FnOff

\* main.rs 306-314: commit_file(org, repo, file_path, patched_content,
\* commit_message, Some(local_base))
CommitArgs(u) ==
    [repo |-> u.repo, file_path |-> u.file_path, content |-> u.patched_content,
     local_base |-> u.local_base]

\* main.rs 305-314: the loop takes the next pending update and calls commit_file.
ApplyCall ==
    /\ dpc = "apply"
    /\ ~dry_run
    /\ pc = "idle"
    /\ idx <= Len(pending_updates)
    /\ BeginCall(CommitArgs(pending_updates[idx]))
    /\ UNCHANGED <<parVars, fnVars, envVars, driverVars>>

CommittedEntry(u, res) ==
    [repo |-> u.repo, file |-> u.file_path, sha |-> res.sha,
     strategy |-> res.strategy, dry_run |-> FALSE]

ErrorEntry(u, res) == [repo |-> u.repo, file |-> u.file_path, error |-> res.error]

DryRunEntry(u) ==
    [repo |-> u.repo, file |-> u.file_path, sha |-> <<>>, strategy |-> None,
     dry_run |-> TRUE]

\* Variant of ApplyRecord: an error of commit_file ends the loop (as `?` would).
ApplyRecord_AbortOnError ==
    /\ dpc = "apply"
    /\ pc = "done"
    /\ IF result.kind = "ok"
       THEN /\ committed' = Append(committed,
                    CommittedEntry(pending_updates[idx], result))
            /\ idx' = idx + 1
            /\ dpc' = dpc
       ELSE /\ committed' = committed
            /\ idx' = idx
            /\ dpc' = "sync"
    /\ pc' = "idle"
    /\ UNCHANGED <<parVars, fnVars, envVars, calls, args, blob_sha, result, steps, landed, pre,
                   dry_run, pending_updates, errors, config_synced, sync_requests>>

\* main.rs 315-339: the match on commit_file's result; the loop goes on.
ApplyRecord ==
    /\ dpc = "apply"
    /\ pc = "done"
    /\ IF result.kind = "ok"
       THEN /\ committed' = Append(committed,
                    CommittedEntry(pending_updates[idx], result))
            /\ errors' = errors
       ELSE /\ errors' = Append(errors, ErrorEntry(pending_updates[idx], result))
            /\ committed' = committed
    /\ idx' = idx + 1
    /\ pc' = "idle"
    /\ UNCHANGED <<parVars, fnVars, envVars, calls, args, blob_sha, result, steps, landed, pre, dpc,
                   dry_run, pending_updates, config_synced, sync_requests>>

\* main.rs 305, 340: the loop is over.
ApplyEnd ==
    /\ dpc = "apply"
    /\ ~dry_run
    /\ pc = "idle"
    /\ idx > Len(pending_updates)
    /\ dpc' = "sync"
    /\ UNCHANGED <<parVars, fnVars, envVars, callVars, dry_run, pending_updates, idx, committed,
                   errors, config_synced, sync_requests>>

\* main.rs 341-351: dry run lists what would have been committed.
ApplyDryRun ==
    /\ dpc = "apply"
    /\ dry_run
    /\ committed' = [i \in 1..Len(pending_updates) |-> DryRunEntry(pending_updates[i])]
    /\ idx' = Len(pending_updates) + 1
    /\ dpc' = "sync"
    /\ UNCHANGED <<parVars, fnVars, envVars, callVars, dry_run, pending_updates, errors,
                   config_synced, sync_requests>>

\* Variant of SyncWanted: a dry run posts too.
SyncWanted_IgnoresDryRun == committed # <<>>

\* Variant of SyncWanted: a run without a successful commit posts too.
SyncWanted_IgnoresCommitted == ~dry_run

\* main.rs 355: whether phase 5 posts to king.
SyncWanted == ~dry_run /\ committed # <<>>

SyncResponses == {"success", "non_success", "send_err"}

\* main.rs 355-373: config sync.
ConfigSync ==
    /\ dpc = "sync"
    /\ IF SyncWanted
       THEN \E resp \in SyncResponses :
                /\ config_synced' = (resp = "success")
                /\ sync_requests' = Append(sync_requests, resp)
       ELSE /\ config_synced' = FALSE
            /\ sync_requests' = sync_requests
    /\ dpc' = "finished"
    /\ UNCHANGED <<parVars, fnVars, envVars, callVars, dry_run, pending_updates, idx, committed, errors>>

DriverNext ==
    \/ ApplyCall
    \/ CommitFileStep
    \/ ApplyRecord
    \/ ApplyEnd
    \/ ApplyDryRun
    \/ ConfigSync
    \/ RemoteChange

DriverSpec == DriverInit /\ [][DriverNext]_vars

\* ------------------------------------------- two invocations side by side

\* Everything commit_file keeps between its steps: its arguments and locals.
CallState ==
    [pc |-> pc, args |-> args, blob_sha |-> blob_sha, result |-> result,
     steps |-> steps, landed |-> landed]

\* commit_file entered with arguments a, nothing attempted yet.
Entered(a) ==
    [pc |-> "gh_get", args |-> a, blob_sha |-> <<>>, result |-> NoResult,
     steps |-> <<>>, landed |-> <<>>]

\* Arguments that target repository r and, when a checkout is supplied, the
\* checkout of r.
ArgsFor(r) ==
    {[repo |-> r, file_path |-> f, content |-> NewContent, local_base |-> base] :
        f \in Files, base \in {None, r}}

\* Two callers have entered commit_file, one for r1 and one for r2; the
\* remotes and the checkouts are the state they could share.
ParInit ==
    /\ EnvInit
    /\ DriverOff
    /\ FnOff
    /\ calls = 2
    /\ pre = [remote |-> remote, checkout |-> checkout]
    /\ cur = 1
    /\ \E a1 \in ArgsFor("r1"), a2 \in ArgsFor("r2") :
         /\ pc = Entered(a1).pc
         /\ args = a1
         /\ blob_sha = Entered(a1).blob_sha
         /\ result = Entered(a1).result
         /\ steps = Entered(a1).steps
         /\ landed = Entered(a1).landed
         /\ parked = Entered(a2)

\* The scheduler lets the other invocation take the next step.
Switch ==
    /\ parked.pc # "none"
    /\ cur' = 3 - cur
    /\ parked' = CallState
    /\ pc' = parked.pc
    /\ args' = parked.args
    /\ blob_sha' = parked.blob_sha
    /\ result' = parked.result
    /\ steps' = parked.steps
    /\ landed' = parked.landed
    /\ UNCHANGED <<fnVars, envVars, calls, pre, driverVars>>

ParNext ==
    \/ CommitFileStep
    \/ Switch

ParSpec == ParInit /\ [][ParNext]_vars

\* -------------------------------------------------------------- versions.rs

\* A version string is the sequence of its characters.
Digits == {"0", "1", "2", "3", "4", "5", "6", "7", "8", "9"}
Separators == {".", "-", "+"}

\* Decimal numbers are kept as digit sequences without leading zeros (zero is
\* the empty sequence): u64 does not fit the integers of the model checker.
Zero == <<>>
U64Max == <<"1", "8", "4", "4", "6", "7", "4", "4", "0", "7",
            "3", "7", "0", "9", "5", "5", "1", "6", "1", "5">>

DigitVal(c) ==
    CASE c = "0" -> 0 [] c = "1" -> 1 [] c = "2" -> 2 [] c = "3" -> 3
      [] c = "4" -> 4 [] c = "5" -> 5 [] c = "6" -> 6 [] c = "7" -> 7
      [] c = "8" -> 8 [] OTHER -> 9

RECURSIVE StripZeros(_)
StripZeros(s) ==
    IF s # <<>> /\ Head(s) = "0" THEN StripZeros(Tail(s)) ELSE s

\* a < b for numbers without leading zeros
NumLess(a, b) ==
    \/ Len(a) < Len(b)
    \/ /\ Len(a) = Len(b)
       /\ \E i \in 1..Len(a) :
            /\ a[i] # b[i]
            /\ DigitVal(a[i]) < DigitVal(b[i])
            /\ \A j \in 1..(i - 1) : a[j] = b[j]

\* str::split(['.', '-', '+']): the fields between the separators; a string
\* without separator, the empty one included, is one field.
RECURSIVE Split(_)
Split(s) ==
    IF \A i \in 1..Len(s) : s[i] \notin Separators
    THEN <<s>>
    ELSE LET i == CHOOSE k \in 1..Len(s) :
                    /\ s[k] \in Separators
                    /\ \A j \in 1..(k - 1) : s[j] \notin Separators
         IN  <<SubSeq(s, 1, i - 1)>> \o Split(SubSeq(s, i + 1, Len(s)))

\* Iterator::take(n)
Take(seq, n) == SubSeq(seq, 1, IF Len(seq) < n THEN Len(seq) ELSE n)

\* str::parse::<u64>(): Ok for a non-empty run of ASCII digits whose value
\* fits 64 bits, Err otherwise. (A leading '+' is accepted by u64::from_str,
\* but a field never holds one: '+' is a separator.)
ParseErr == [ok |-> FALSE, val |-> Zero]
ParseU64(p) ==
    IF p = <<>> \/ \E i \in 1..Len(p) : p[i] \notin Digits
    THEN ParseErr
    ELSE IF NumLess(U64Max, StripZeros(p))
         THEN ParseErr
         ELSE [ok |-> TRUE, val |-> StripZeros(p)]

\* Result::unwrap_or
UnwrapOr(r, default) == IF r.ok THEN r.val ELSE default

\* Option::unwrap_or on parts.get(i)
GetOr(parts, i, default) == IF i \in DOMAIN parts THEN parts[i] ELSE default

\* Variant of parse_semver: only two fields are read.
parse_semver_TwoFields(v) ==
    LET fields == Take(Split(v), 2)
        parts == [i \in DOMAIN fields |-> UnwrapOr(ParseU64(fields[i]), Zero)]
    IN  <<GetOr(parts, 1, Zero), GetOr(parts, 2, Zero), Zero>>

\* versions.rs 102-113
parse_semver(v) ==
    LET fields == Take(Split(v), 3)
        parts == [i \in DOMAIN fields |-> UnwrapOr(ParseU64(fields[i]), Zero)]
    IN  <<GetOr(parts, 1, Zero), GetOr(parts, 2, Zero), GetOr(parts, 3, Zero)>>

\* Ord for (u64, u64, u64): a > b, lexicographically
TupleGreater(a, b) ==
    \/ NumLess(b[1], a[1])
    \/ /\ a[1] = b[1]
       /\ \/ NumLess(b[2], a[2])
          \/ /\ a[2] = b[2]
             /\ NumLess(b[3], a[3])

\* versions.rs 98-100
needs_update(current, latest) ==
    TupleGreater(parse_semver(latest), parse_semver(current))

\* Version strings of up to MaxFields fields.
FieldVocab == {<<>>, <<"1">>, <<"2">>, <<"a">>}
GeneratedSeparators == {".", "-"}

RECURSIVE VersionsOf(_)
VersionsOf(k) ==
    IF k = 1 THEN FieldVocab
    ELSE {v \o <<s>> \o f : v \in VersionsOf(k - 1), s \in GeneratedSeparators,
                            f \in FieldVocab}

GeneratedVersions == UNION {VersionsOf(k) : k \in 1..MaxFields}

\* Version strings of the crate's tests and of the registry, numbers of more
\* than one digit, with leading zeros, at and above the largest u64.
KnownVersions ==
    {<<"0", ".", "2", ".", "0">>,
     <<"0", ".", "3", ".", "0">>,
     <<"0", ".", "2", ".", "1">>,
     <<"1", ".", "0", ".", "0">>,
     <<"1", ".", "2", ".", "3", "-", "r", "c", ".", "1">>,
     <<"1", ".", "2", ".", "3", "+", "4">>,
     <<"1", "+", "2">>,
     <<"1", ".", "2", ".", "3", ".", "4">>,
     <<"1", ".", "2", ".", "4", "-", "a">>,
     <<"1", "0", ".", "0", ".", "0">>,
     <<"9", ".", "0", ".", "0">>,
     <<"0", "1", ".", "0", "0", ".", "2">>,
     U64Max,
     SubSeq(U64Max, 1, 19) \o <<"6">>}

\* The driver compares the version a manifest pins with the version the
\* registry reports.
VersionInit ==
    /\ EnvInit /\ CallInit /\ DriverOff /\ ParOff
    /\ stage = "args"
    /\ output = None
    /\ \E a \in KnownVersions, b \in GeneratedVersions \cup KnownVersions :
       \E swap \in BOOLEAN :
         input = IF swap THEN [current |-> b, latest |-> a]
                         ELSE [current |-> a, latest |-> b]

NeedsUpdate ==
    /\ stage = "args"
    /\ stage' = "returned"
    /\ output' = needs_update(input.current, input.latest)
    /\ UNCHANGED <<input, parVars, envVars, callVars, driverVars>>

VersionSpec == VersionInit /\ [][NeedsUpdate]_vars

\* ------------------------------------------- updater.rs: patch_workflow_sed

\* A workflow file, a package name and a version are sequences of characters.
Quote == "\""

\* updater.rs 67-70: regex::escape(dep_name) makes every character of the
\* name stand for itself, so group 1 is the literal text  |<dep_name> = "
Group1(dep_name) == <<"|">> \o dep_name \o <<" ", "=", " ", Quote>>

\* The characters \d matches, as far as the generated files hold any.
RegexDigit(c) == c \in Digits

\* The first closing quote at or after position k of content, 0 if none:
\* [^"]* is greedy and cannot step over a quote.
NextQuote(content, k) ==
    IF \E j \in k..Len(content) : content[j] = Quote
    THEN CHOOSE j \in k..Len(content) :
            /\ content[j] = Quote
            /\ \A m \in k..(j - 1) : content[m] # Quote
    ELSE 0

\* Variant of MatchAt: the leading pipe is not part of the pattern.
MatchAt_NoPipe(content, dep_name, i) ==
    /\ i + Len(Group1(dep_name)) <= Len(content)
    /\ SubSeq(content, i + 1, i + Len(Group1(dep_name)) - 1) = Tail(Group1(dep_name))
    /\ RegexDigit(content[i + Len(Group1(dep_name))])
    /\ NextQuote(content, i + Len(Group1(dep_name)) + 1) # 0

\* The regex (\|<dep_name> = ")([\d][^"]*)(") matches at position i.
MatchAt(content, dep_name, i) ==
    /\ i + Len(Group1(dep_name)) <= Len(content)
    /\ SubSeq(content, i, i + Len(Group1(dep_name)) - 1) = Group1(dep_name)
    /\ RegexDigit(content[i + Len(Group1(dep_name))])
    /\ NextQuote(content, i + Len(Group1(dep_name)) + 1) # 0

\* Position of group 3, the closing quote, of the match at position i.
MatchEnd(content, dep_name, i) ==
    NextQuote(content, i + Len(Group1(dep_name)) + 1)

\* updater.rs 74-76: the closure's return value replaces the match as it is
\* (no $-expansion): group 1, new_version, group 3.
Replacement(dep_name, new_version) ==
    Group1(dep_name) \o new_version \o <<Quote>>

\* Regex::replace_all: the matches are found left to right, each search
\* starting behind the previous match; text between matches is copied.
RECURSIVE ReplaceAllFrom(_, _, _, _)
ReplaceAllFrom(content, dep_name, new_version, i) ==
    IF i > Len(content) THEN <<>>
    ELSE IF MatchAt(content, dep_name, i)
         THEN Replacement(dep_name, new_version)
              \o ReplaceAllFrom(content, dep_name, new_version,
                                MatchEnd(content, dep_name, i) + 1)
         ELSE <<content[i]>>
              \o ReplaceAllFrom(content, dep_name, new_version, i + 1)

\* updater.rs 63-79
patch_workflow_sed(content, dep_name, new_version) ==
    ReplaceAllFrom(content, dep_name, new_version, 1)

\* The text pieces generated workflow files are made of: the start of a sed
\* expression for either package, the same without its pipe, a digit, a
\* letter, a closing quote, a line end.
PackageNames == {<<"a">>, <<"b">>}
Pieces ==
    {Group1(<<"a">>), Group1(<<"b">>), Tail(Group1(<<"a">>)),
     <<"1">>, <<"x">>, <<Quote>>, <<"\n">>}

RECURSIVE WorkflowsOf(_)
WorkflowsOf(n) ==
    IF n = 0 THEN {<<>>}
    ELSE {w \o p : w \in WorkflowsOf(n - 1), p \in Pieces}

Workflows == UNION {WorkflowsOf(n) : n \in 0..MaxPieces}

\* New versions: a usual one, the empty one, one that does not start with a
\* digit, one with a double quote inside, one that reads like a group reference.
NewVersions ==
    {<<"2">>, <<>>, <<"x">>, <<"2", Quote, "3">>, <<"$", "1">>}

WorkflowInit ==
    /\ EnvInit /\ CallInit /\ DriverOff /\ ParOff
    /\ stage = "args"
    /\ output = <<>>
    /\ \E c \in Workflows, p \in PackageNames, v \in NewVersions :
         input = [content |-> c, dep_name |-> p, new_version |-> v]

\* main.rs 235: the workflow file is patched
PatchWorkflow ==
    /\ stage = "args"
    /\ stage' = "patched"
    /\ output' = <<patch_workflow_sed(input.content, input.dep_name, input.new_version)>>
    /\ UNCHANGED <<input, parVars, envVars, callVars, driverVars>>

\* The next run of the agent patches the file it patched before.
PatchWorkflowAgain ==
    /\ stage = "patched"
    /\ stage' = "repatched"
    /\ output' = Append(output,
            patch_workflow_sed(output[1], input.dep_name, input.new_version))
    /\ UNCHANGED <<input, parVars, envVars, callVars, driverVars>>

WorkflowNext ==
    \/ PatchWorkflow
    \/ PatchWorkflowAgain

WorkflowSpec == WorkflowInit /\ [][WorkflowNext]_vars

\* ------------------------------------------------- manifests (toml_edit)

\* A manifest text is the sequence of its lines. A line is a table header
\* ([package], [dependencies], [dependencies.p]) or an entry: a key, a value,
\* and the decoration that follows the value up to the line end (a comment).
\* A value is a string, an integer, an array or an inline table, whose fields
\* are entries themselves.
NoDecor == ""
StringValue(s) == [type |-> "string", text |-> s, fields |-> <<>>]
IntegerValue == [type |-> "integer", text |-> <<"1">>, fields |-> <<>>]
ArrayValue == [type |-> "array", text |-> <<>>, fields |-> <<>>]
InlineTable(fields) == [type |-> "inline", text |-> <<>>, fields |-> fields]
NoValue == [type |-> "none", text |-> <<>>, fields |-> <<>>]

Field(key, value) == [key |-> key, value |-> value, decor |-> NoDecor]
HeaderLine(path) ==
    [kind |-> "header", path |-> path, key |-> "", value |-> NoValue, decor |-> NoDecor]
EntryLine(key, value, decor) ==
    [kind |-> "entry", path |-> <<>>, key |-> key, value |-> value, decor |-> decor]

\* The parsed document: its tables in the order of the text, the root table
\* first; a table is its header path and its entries in order.
TomlTable(path, entries) == [path |-> path, entries |-> entries]
EmptyDocument == [ok |-> TRUE, tables |-> <<TomlTable(<<>>, <<>>)>>]
ParseError == [ok |-> FALSE, tables |-> <<>>]

HasTable(doc, path) == \E i \in DOMAIN doc.tables : doc.tables[i].path = path
TableAt(doc, path) == CHOOSE i \in DOMAIN doc.tables : doc.tables[i].path = path
HasKey(entries, key) == \E i \in DOMAIN entries : entries[i].key = key
KeyAt(entries, key) == CHOOSE i \in DOMAIN entries : entries[i].key = key

\* A header may not name a table that has a header already, nor a key that
\* holds a value.
HeaderAllowed(doc, path) ==
    /\ ~HasTable(doc, path)
    /\ Len(path) = 1 => ~HasKey(doc.tables[1].entries, path[1])
    /\ Len(path) = 2 =>
          /\ ~HasKey(doc.tables[1].entries, path[1])
          /\ HasTable(doc, <<path[1]>>) =>
                ~HasKey(doc.tables[TableAt(doc, <<path[1]>>)].entries, path[2])

\* An entry may not repeat a key of its table, nor name a sub-table that has
\* a header already.
EntryAllowed(doc, key) ==
    LET t == doc.tables[Len(doc.tables)]
    IN  /\ ~HasKey(t.entries, key)
        /\ ~HasTable(doc, t.path \o <<key>>)

\* str::parse::<DocumentMut>(): the lines are read in order; an entry belongs
\* to the table of the last header before it.
RECURSIVE ParseFrom(_, _, _)
ParseFrom(text, i, doc) ==
    IF i > Len(text) THEN doc
    ELSE IF text[i].kind = "header"
         THEN IF HeaderAllowed(doc, text[i].path)
              THEN ParseFrom(text, i + 1,
                     [doc EXCEPT !.tables = Append(@, TomlTable(text[i].path, <<>>))])
              ELSE ParseError
         ELSE IF EntryAllowed(doc, text[i].key)
              THEN ParseFrom(text, i + 1,
                     [doc EXCEPT !.tables[Len(doc.tables)].entries =
                        Append(@, [key |-> text[i].key, value |-> text[i].value,
                                   decor |-> text[i].decor])])
              ELSE ParseError

Parse(text) == ParseFrom(text, 1, EmptyDocument)

\* DocumentMut::to_string(): every table in order, its header (the root
\* table has none) and its entries with their decoration.
RECURSIVE EntryLines(_)
EntryLines(entries) ==
    IF entries = <<>> THEN <<>>
    ELSE <<EntryLine(Head(entries).key, Head(entries).value, Head(entries).decor)>>
         \o EntryLines(Tail(entries))

RECURSIVE TableLines(_)
TableLines(tables) ==
    IF tables = <<>> THEN <<>>
    ELSE (IF Head(tables).path = <<>> THEN <<>> ELSE <<HeaderLine(Head(tables).path)>>)
         \o EntryLines(Head(tables).entries)
         \o TableLines(Tail(tables))

DocToString(doc) == TableLines(doc.tables)

\* Option<String> and Result<String>
Some(s) == [some |-> TRUE, val |-> s]
NoneOption == [some |-> FALSE, val |-> <<>>]
OkText(t) == [ok |-> TRUE, text |-> t, error |-> None]
ErrText(e) == [ok |-> FALSE, text |-> None, error |-> e]

\* What a lookup in the document yields: nothing, a value, or a table with a
\* header of its own.
AbsentItem == [k |-> "absent", value |-> NoValue, entries |-> <<>>]
ValueItem(v) == [k |-> "value", value |-> v, entries |-> <<>>]
TableItem(entries) == [k |-> "table", value |-> NoValue, entries |-> entries]

\* Table::get / Table::get_mut on the document: the item under a top-level
\* key. A table exists as soon as one of its sub-tables has a header.
RootItem(doc, key) ==
    IF HasKey(doc.tables[1].entries, key)
    THEN ValueItem(doc.tables[1].entries[KeyAt(doc.tables[1].entries, key)].value)
    ELSE IF \E i \in DOMAIN doc.tables :
                doc.tables[i].path # <<>> /\ doc.tables[i].path[1] = key
         THEN TableItem(IF HasTable(doc, <<key>>)
                        THEN doc.tables[TableAt(doc, <<key>>)].entries ELSE <<>>)
         ELSE AbsentItem

\* The item under a key of the top-level table `top`.
SubItem(doc, top, key) ==
    IF HasTable(doc, <<top, key>>)
    THEN TableItem(doc.tables[TableAt(doc, <<top, key>>)].entries)
    ELSE IF HasTable(doc, <<top>>) /\ HasKey(doc.tables[TableAt(doc, <<top>>)].entries, key)
         THEN ValueItem(doc.tables[TableAt(doc, <<top>>)].entries[
                            KeyAt(doc.tables[TableAt(doc, <<top>>)].entries, key)].value)
         ELSE AbsentItem

\* Item::get -> Index::index for str: an item of a table; a value that is no
\* inline table has no items. (No generated manifest holds `dependencies` as
\* an inline table.)
ItemGet(doc, top, key) ==
    IF RootItem(doc, top).k = "table" THEN SubItem(doc, top, key) ELSE AbsentItem

\* Item::get_mut -> Index::index_mut for str: a table hands out the item under
\* the key and, if it has none, inserts an empty item (Item::None) and hands
\* that out; a value that is no inline table yields None.
ItemGetMut(doc, top, key) ==
    [some |-> RootItem(doc, top).k = "table", item |-> SubItem(doc, top, key)]

\* Value::as_str / Item::as_str
AsStr(value) == IF value.type = "string" THEN Some(value.text) ELSE NoneOption

\* Variant of VersionOf: the version key is looked at before the path key.
VersionOf_VersionFirst(entries) ==
    IF HasKey(entries, "version")
    THEN AsStr(entries[KeyAt(entries, "version")].value)
    ELSE NoneOption

\* versions.rs 71-78 and 81-88: a table, inline or not, with a path key has no
\* version; else its version is its version key, if that is a string.
VersionOf(entries) ==
    IF HasKey(entries, "path") THEN NoneOption
    ELSE IF HasKey(entries, "version")
         THEN AsStr(entries[KeyAt(entries, "version")].value)
         ELSE NoneOption

\* versions.rs 59-93
current_dep_version(cargo_toml, dep_name) ==
    LET doc == Parse(cargo_toml)
        dep == ItemGet(doc, "dependencies", dep_name)
    IN  IF ~doc.ok THEN NoneOption
        ELSE IF RootItem(doc, "dependencies").k = "absent" THEN NoneOption
        ELSE IF dep.k = "absent" THEN NoneOption
        ELSE IF dep.k = "value" /\ dep.value.type = "string" THEN Some(dep.value.text)
        ELSE IF dep.k = "value" /\ dep.value.type = "inline" THEN VersionOf(dep.value.fields)
        ELSE IF dep.k = "table" THEN VersionOf(dep.entries)
        ELSE NoneOption

\* toml_edit::value(s) and Value::from(s): a string value without decoration
\* of its own.
FreshEntry(key, s) == [key |-> key, value |-> StringValue(s), decor |-> NoDecor]

\* Variant of SetString: the assignment is lost.
SetString_Lost(entries, key, s) == entries

\* Variant of SetString: the assigned entry moves to the end of its table.
SetString_MovesToEnd(entries, key, s) ==
    IF \E i \in DOMAIN entries : entries[i].key = key
    THEN SelectSeq(entries, LAMBDA e : e.key # key) \o <<FreshEntry(key, s)>>
    ELSE entries

\* Variant of SetString: a missing key is added at the end.
SetString_Inserts(entries, key, s) ==
    IF \E i \in DOMAIN entries : entries[i].key = key
    THEN [i \in DOMAIN entries |->
            IF entries[i].key = key THEN FreshEntry(key, s) ELSE entries[i]]
    ELSE Append(entries, FreshEntry(key, s))

\* The entries with the value under `key` replaced by a fresh string; entries
\* without the key are returned as they are.
SetString(entries, key, s) ==
    [i \in DOMAIN entries |->
        IF entries[i].key = key THEN FreshEntry(key, s) ELSE entries[i]]

\* Variant of SetInlineVersion: the whole entry becomes a bare version string.
SetInlineVersion_ReplacesTable(entries, key, s) == SetString(entries, key, s)

\* updater.rs 28-32: the version field of the inline table under `key`.
SetInlineVersion(entries, key, s) ==
    [i \in DOMAIN entries |->
        IF entries[i].key = key
        THEN [entries[i] EXCEPT !.value.fields = SetString(@, "version", s)]
        ELSE entries[i]]

\* updater.rs 25-39: the document after the assignment to the version.
PatchedDocument(doc, dep_name, new_version) ==
    LET dep == SubItem(doc, "dependencies", dep_name)
    IN  IF dep.k = "table"
        THEN [doc EXCEPT !.tables[TableAt(doc, <<"dependencies", dep_name>>)].entries =
                            SetString(@, "version", new_version)]
        ELSE IF dep.value.type = "string"
        THEN [doc EXCEPT !.tables[TableAt(doc, <<"dependencies">>)].entries =
                            SetString(@, dep_name, new_version)]
        ELSE [doc EXCEPT !.tables[TableAt(doc, <<"dependencies">>)].entries =
                            SetInlineVersion(@, dep_name, new_version)]

\* updater.rs 12-45
patch_cargo_toml(content, dep_name, new_version) ==
    LET doc == Parse(content)
        dep == ItemGetMut(doc, "dependencies", dep_name)
    IN  IF ~doc.ok THEN ErrText("parse")
        ELSE IF RootItem(doc, "dependencies").k = "absent"
             THEN ErrText("no_dependencies_section")
        ELSE IF ~dep.some THEN ErrText("not_found")
        ELSE IF \/ dep.item.k = "table"
                \/ dep.item.k = "value" /\ dep.item.value.type \in {"string", "inline"}
             THEN OkText(DocToString(PatchedDocument(doc, dep_name, new_version)))
        ELSE ErrText("unexpected_shape")

\* The lines generated manifests are made of.
DepNames == {"p"}
OldVersion == <<"1">>
PathValue == StringValue(<<".", ".", "/", "p">>)
ManifestLines ==
    {HeaderLine(<<"package">>),
     HeaderLine(<<"dependencies">>),
     HeaderLine(<<"dependencies", "p">>),
     EntryLine("p", StringValue(OldVersion), NoDecor),
     EntryLine("p", StringValue(OldVersion), "# pinned"),
     EntryLine("p", InlineTable(<<Field("version", StringValue(OldVersion)),
                                  Field("features", ArrayValue)>>), NoDecor),
     EntryLine("p", InlineTable(<<Field("path", PathValue)>>), NoDecor),
     EntryLine("p", InlineTable(<<Field("path", PathValue),
                                  Field("version", StringValue(OldVersion))>>), NoDecor),
     EntryLine("p", IntegerValue, NoDecor),
     EntryLine("q", StringValue(OldVersion), NoDecor),
     EntryLine("version", StringValue(OldVersion), NoDecor),
     EntryLine("path", PathValue, NoDecor),
     EntryLine("dependencies", IntegerValue, NoDecor)}

\* Manifest texts of up to MaxLines lines.
ManifestTexts == UNION {[1..n -> ManifestLines] : n \in 0..MaxLines}

\* Versions the registry reports: newer than the old one, and older.
LatestVersions == {<<"2">>, <<"0">>}

ManifestInit ==
    /\ EnvInit /\ CallInit /\ DriverOff /\ ParOff
    /\ stage = "args"
    /\ output = None
    /\ \E t \in ManifestTexts, p \in DepNames, v \in LatestVersions :
         input = [content |-> t, dep_name |-> p, new_version |-> v]

\* current_dep_version(content, dep_name)
ReadCurrentVersion ==
    /\ stage = "args"
    /\ stage' = "read"
    /\ output' = [current |-> current_dep_version(input.content, input.dep_name)]
    /\ UNCHANGED <<input, parVars, envVars, callVars, driverVars>>

\* patch_cargo_toml(content, dep_name, new_version)
PatchCargoToml ==
    /\ stage = "args"
    /\ stage' = "patched"
    /\ output' = [result |-> patch_cargo_toml(input.content, input.dep_name,
                                              input.new_version)]
    /\ UNCHANGED <<input, parVars, envVars, callVars, driverVars>>

\* current_dep_version of the text a successful patch returned
ReadPatchedVersion ==
    /\ stage = "patched"
    /\ output.result.ok
    /\ stage' = "reread"
    /\ output' = [result |-> output.result,
                  current |-> current_dep_version(output.result.text, input.dep_name)]
    /\ UNCHANGED <<input, parVars, envVars, callVars, driverVars>>

\* main.rs 180-215: the body of the loop over latest_versions for one tracked
\* crate, on a manifest no other crate has patched yet.
ScanCargoFile ==
    /\ stage = "args"
    /\ stage' = "scanned"
    /\ LET current == current_dep_version(input.content, input.dep_name)
           stale == current.some /\ needs_update(current.val, input.new_version)
           patch == patch_cargo_toml(input.content, input.dep_name, input.new_version)
       IN  output' = [current |-> current,
                      reported |-> stale,
                      patch_called |-> stale,
                      patched |-> IF stale /\ patch.ok THEN patch.text
                                  ELSE input.content,
                      file_changed |-> stale /\ patch.ok]
    /\ UNCHANGED <<input, parVars, envVars, callVars, driverVars>>

\* main.rs 19: evo-common and evo-agent-sdk
TRACKED_CRATES == <<"q", "p">>

\* main.rs 161, 228: the crate whose version the workflow files carry
SdkCrate == "p"

\* What the loop over latest_versions holds before it looks at a file.
ScanStart(content) ==
    [patched |-> content, file_changed |-> FALSE, reports |-> <<>>, warned |-> <<>>]

\* main.rs 182-209: one iteration of the loop over latest_versions, for the
\* file read as `content`.
ScanCrate(content, acc, crate_name, latest) ==
    LET current == current_dep_version(acc.patched, crate_name)
        patch == patch_cargo_toml(acc.patched, crate_name, latest)
    IN  IF ~(current.some /\ needs_update(current.val, latest)) THEN acc
        ELSE [patched |-> IF patch.ok THEN patch.text ELSE acc.patched,
              file_changed |-> acc.file_changed \/ patch.ok,
              reports |-> Append(acc.reports,
                                 [crate_name |-> crate_name, current |-> current.val,
                                  latest |-> latest]),
              warned |-> IF patch.ok THEN acc.warned
                         ELSE Append(acc.warned, crate_name)]

RECURSIVE ScanCrates(_, _, _, _)
\* main.rs 179-210: the loop over latest_versions, in the order `order` in
\* which the map hands out its entries.
ScanCrates(content, acc, latest_versions, order) ==
    IF order = <<>> THEN acc
    ELSE ScanCrates(content,
                    ScanCrate(content, acc, Head(order), latest_versions[Head(order)]),
                    latest_versions, Tail(order))

\* patch_cargo_toml on the text an earlier patch_cargo_toml returned
PatchNext(earlier, dep_name, new_version) ==
    IF earlier.ok THEN patch_cargo_toml(earlier.text, dep_name, new_version)
    ELSE earlier

\* patch_cargo_toml for two crates, and the loop of main.rs 179-210 over a
\* map of two latest versions, each in both orders.
PatchTwoCrates ==
    /\ stage = "args"
    /\ stage' = "two"
    /\ \E w \in LatestVersions :
         LET c == input.content
             p == input.dep_name
             q == TRACKED_CRATES[1]
             v == input.new_version
             latest_versions == (p :> v) @@ (q :> w)
         IN  output' =
               [other_version |-> w,
                pq |-> PatchNext(patch_cargo_toml(c, p, v), q, w),
                qp |-> PatchNext(patch_cargo_toml(c, q, w), p, v),
                scan_pq |-> ScanCrates(c, ScanStart(c), latest_versions, <<p, q>>),
                scan_qp |-> ScanCrates(c, ScanStart(c), latest_versions, <<q, p>>)]
    /\ UNCHANGED <<input, parVars, envVars, callVars, driverVars>>

ManifestNext ==
    \/ ReadCurrentVersion
    \/ PatchCargoToml
    \/ ReadPatchedVersion
    \/ ScanCargoFile
    \/ PatchTwoCrates

ManifestSpec == ManifestInit /\ [][ManifestNext]_vars

\* ------------------------------------------------ on_pipeline, phases 1-2

\* RepoSpec.cargo_files against RepoSpec.workflow_files
IsCargoFile(t) == t.file_path = "Cargo.toml"

\* The name of a crate as the characters a workflow file spells it with.
CrateChars(crate_name) == <<crate_name>>

\* Variant of InsertFetched: a failed fetch empties the map.
InsertFetched_ErrorClears(latest_versions, crate_name, fetched) ==
    IF fetched.some THEN (crate_name :> fetched.val) @@ latest_versions ELSE <<>>

\* main.rs 147-156: the match on latest_crate_version's result; an error
\* leaves the map as it is.
InsertFetched(latest_versions, crate_name, fetched) ==
    IF fetched.some THEN (crate_name :> fetched.val) @@ latest_versions
    ELSE latest_versions

RECURSIVE FetchedUpTo(_, _)
\* main.rs 143-157: the map after the first k tracked crates.
FetchedUpTo(fetch, k) ==
    IF k = 0 THEN <<>>
    ELSE InsertFetched(FetchedUpTo(fetch, k - 1), TRACKED_CRATES[k],
                       fetch[TRACKED_CRATES[k]])

\* The map phase 1 ends with.
FetchedVersions(fetch) == FetchedUpTo(fetch, Len(TRACKED_CRATES))

\* main.rs 182: the order in which the map hands out its entries.
IterationOrder(latest_versions, order) ==
    SelectSeq(order, LAMBDA c : c \in DOMAIN latest_versions)

\* main.rs 179-210: the patched text the loop over latest_versions ends with.
ScanManifestText(content, latest_versions, order) ==
    ScanCrates(content, ScanStart(content), latest_versions,
               IterationOrder(latest_versions, order)).patched

\* main.rs 228, 235: the text patch_workflow_sed returns for a workflow file;
\* without a latest version of the sdk crate the file is not looked at.
ScanWorkflowText(content, latest_versions) ==
    IF SdkCrate \in DOMAIN latest_versions
    THEN patch_workflow_sed(content, CrateChars(SdkCrate), latest_versions[SdkCrate])
    ELSE content

\* What phase 2 makes of the text of managed file i.
ScannedText(i, content) ==
    IF IsCargoFile(ScanOrder[i])
    THEN ScanManifestText(content, FetchedVersions(input.fetch), input.order)
    ELSE ScanWorkflowText(content, FetchedVersions(input.fetch))

\* A change somebody else pushed that the checkout has not pulled: one more
\* line at the end of the file.
UnpulledLine(i) ==
    IF IsCargoFile(ScanOrder[i])
    THEN EntryLine("r", StringValue(OldVersion), NoDecor)
    ELSE "x"

\* The text each content of managed file i stands for: the file as the run
\* found it in the checkout, as phase 2 patched it, as a failed write left
\* it, and as somebody else pushed it.
TextOf(i, c) ==
    CASE c = OldContent -> input.files[i].val
      [] c = NewContent -> ScannedText(i, input.files[i].val)
      [] c = Truncated -> <<>>
      [] OTHER -> Append(input.files[i].val, UnpulledLine(i))

\* main.rs 170-177, 230-234: read_to_string of managed file i in its checkout
ReadToString(i) ==
    IF input.files[i].some
    THEN Some(TextOf(i, checkout[ScanOrder[i].repo].wt[ScanOrder[i].file_path]))
    ELSE NoneOption

\* The content that stands for a patched text of managed file i.
ContentOf(i, text) ==
    CHOOSE c \in {NewContent, OldContent, Truncated} : TextOf(i, c) = text

\* main.rs 217-223, 238-247
QueuedUpdate(i, patched) ==
    [repo |-> ScanOrder[i].repo, local_base |-> ScanOrder[i].repo,
     file_path |-> ScanOrder[i].file_path, patched_content |-> ContentOf(i, patched)]

\* What is kept of an earlier run: its pending updates and what became of them.
RunSummary(pending, done, failed) ==
    [pending_updates |-> pending, committed |-> done, errors |-> failed]

NoRun == RunSummary(<<>>, <<>>, <<>>)

\* on_pipeline before phase 1.
ScanStartState ==
    /\ dpc = "fetch"
    /\ pending_updates = <<>>
    /\ idx = 1
    /\ committed = <<>>
    /\ errors = <<>>
    /\ config_synced = FALSE
    /\ sync_requests = <<>>
    /\ output = [latest_versions |-> <<>>, k |-> 1, i |-> 1, version_reports |-> <<>>,
                 warned |-> <<>>, previous |-> NoRun]

\* What the registry answers for a crate: an error, or its latest version.
FetchResults == {NoneOption} \cup {Some(v) : v \in LatestVersions}

\* The orders in which the map of latest versions can hand out its entries.
HashOrders == {TRACKED_CRATES, <<TRACKED_CRATES[2], TRACKED_CRATES[1]>>}

\* main.rs 146-157: latest_crate_version for the next tracked crate.
FetchLatestVersion ==
    /\ dpc = "fetch"
    /\ LET crate_name == TRACKED_CRATES[output.k]
           fetched == input.fetch[crate_name]
       IN  output' = [output EXCEPT
                        !.latest_versions = InsertFetched(@, crate_name, fetched),
                        !.k = @ + 1]
    /\ dpc' = IF output.k = Len(TRACKED_CRATES) THEN "scan" ELSE "fetch"
    /\ UNCHANGED <<stage, input, parVars, envVars, callVars, dry_run, pending_updates, idx,
                   committed, errors, config_synced, sync_requests>>

\* main.rs 165, 251-299: the next managed file, or phase 4 after the last one.
AfterFile(i) == IF i = Len(ScanOrder) THEN "apply" ELSE "scan"

\* Variant of ScanManifest's queueing: one pending update per patched crate.
QueueManifest_PerCrate(i, acc) ==
    pending_updates \o [n \in 1..Len(acc.reports) |-> QueuedUpdate(i, acc.patched)]

\* main.rs 212-224
QueueManifest(i, acc) ==
    IF acc.file_changed THEN Append(pending_updates, QueuedUpdate(i, acc.patched))
    ELSE pending_updates

\* main.rs 169-225: the next managed file is a manifest.
ScanManifest ==
    /\ dpc = "scan"
    /\ IsCargoFile(ScanOrder[output.i])
    /\ LET content == ReadToString(output.i)
           acc == ScanCrates(content.val, ScanStart(content.val), output.latest_versions,
                             IterationOrder(output.latest_versions, input.order))
       IN  IF content.some
           THEN /\ pending_updates' = QueueManifest(output.i, acc)
                /\ output' = [output EXCEPT
                                !.i = @ + 1,
                                !.version_reports = @ \o acc.reports,
                                !.warned = @ \o acc.warned]
           ELSE /\ pending_updates' = pending_updates
                /\ output' = [output EXCEPT !.i = @ + 1]
    /\ dpc' = AfterFile(output.i)
    /\ UNCHANGED <<stage, input, parVars, envVars, callVars, dry_run, idx, committed, errors,
                   config_synced, sync_requests>>

\* main.rs 228-250: the next managed file is a workflow file.
ScanWorkflow ==
    /\ dpc = "scan"
    /\ ~IsCargoFile(ScanOrder[output.i])
    /\ LET content == ReadToString(output.i)
           patched == ScanWorkflowText(content.val, output.latest_versions)
       IN  pending_updates' =
             IF content.some /\ patched # content.val
             THEN Append(pending_updates, QueuedUpdate(output.i, patched))
             ELSE pending_updates
    /\ output' = [output EXCEPT !.i = @ + 1]
    /\ dpc' = AfterFile(output.i)
    /\ UNCHANGED <<stage, input, parVars, envVars, callVars, dry_run, idx, committed, errors,
                   config_synced, sync_requests>>

\* The manifests the managed repositories hold when phase 2 reads them.
NewerVersion == <<"3">>
ScanManifests ==
    {<<HeaderLine(<<"dependencies">>),
       EntryLine("p", StringValue(OldVersion), NoDecor),
       EntryLine("q", StringValue(OldVersion), NoDecor)>>,
     <<HeaderLine(<<"dependencies">>),
       EntryLine("p", StringValue(OldVersion), "# pinned")>>,
     <<HeaderLine(<<"dependencies">>),
       EntryLine("p", StringValue(NewerVersion), NoDecor),
       EntryLine("q", StringValue(OldVersion), NoDecor)>>,
     <<HeaderLine(<<"dependencies">>),
       EntryLine("p", InlineTable(<<Field("path", PathValue)>>), NoDecor),
       EntryLine("q", StringValue(OldVersion), NoDecor)>>,
     <<HeaderLine(<<"package">>),
       EntryLine("version", StringValue(OldVersion), NoDecor)>>}

\* The workflow files: a literal older than, equal to and newer than the
\* latest versions, a literal that spells an equal version otherwise, and a
\* file without the pattern.
ScanWorkflows ==
    {Group1(CrateChars(SdkCrate)) \o OldVersion \o <<Quote, "\n">>,
     Group1(CrateChars(SdkCrate)) \o <<"2", Quote, "\n">>,
     Group1(CrateChars(SdkCrate)) \o <<"2", ".", "0", Quote, "\n">>,
     Group1(CrateChars(SdkCrate)) \o NewerVersion \o <<Quote, "\n">>,
     <<"x", "\n">>}

\* The files phase 2 can find at position i: a text, or no readable file.
FilesAt(i) ==
    {NoneOption} \cup
    {Some(t) : t \in IF IsCargoFile(ScanOrder[i]) THEN ScanManifests ELSE ScanWorkflows}

ScanInit ==
    /\ EnvInit /\ CallInit /\ ParOff
    /\ ScanStartState
    /\ dry_run = FALSE
    /\ stage = "first"
    /\ \E files \in {<<f1, f2, f3, f4>> : f1 \in FilesAt(1), f2 \in FilesAt(2),
                                             f3 \in FilesAt(3), f4 \in FilesAt(4)},
          fetch \in [{TRACKED_CRATES[k] : k \in 1..Len(TRACKED_CRATES)} -> FetchResults],
          order \in HashOrders :
         input = [files |-> files, fetch |-> fetch, order |-> order]

ScanNext ==
    \/ FetchLatestVersion
    \/ ScanManifest
    \/ ScanWorkflow

ScanSpec == ScanInit /\ [][ScanNext]_vars

\* ------------------------------------------------- on_pipeline, two runs

\* The repositories before the first run: the checkouts are clean, and the
\* remote of each managed file in `unpulled` holds a change the checkout of
\* its repository has not pulled.
RunEnv(unpulled) ==
    /\ remote = [r \in Repos |->
                   [files |-> [f \in Files |->
                                 IF \E i \in unpulled : ScanOrder[i] = [repo |-> r, file_path |-> f]
                                 THEN OtherContent ELSE OldContent],
                    rev |-> Cardinality({i \in unpulled : ScanOrder[i].repo = r})]]
    /\ remoteChanges = 0
    /\ checkout = [r \in Repos |-> CleanCheckout]

\* The files of the two runs: the first repository has a manifest with both
\* crates stale, one with a comment behind the stale sdk crate, or none that
\* can be read, and a workflow file with a stale literal or without the
\* pattern; the second repository is not checked out.
RunFiles ==
    {<<f1, f2, NoneOption, NoneOption>> :
        f1 \in {NoneOption,
                Some(<<HeaderLine(<<"dependencies">>),
                       EntryLine("p", StringValue(OldVersion), NoDecor),
                       EntryLine("q", StringValue(OldVersion), NoDecor)>>),
                Some(<<HeaderLine(<<"dependencies">>),
                       EntryLine("p", StringValue(OldVersion), "# pinned")>>)},
        f2 \in {Some(<<"x", "\n">>),
                Some(Group1(CrateChars(SdkCrate)) \o OldVersion \o <<Quote, "\n">>)}}

\* on_pipeline is entered for the first time.
RunInit ==
    /\ \E unpulled \in {{}, {1}} :
         /\ RunEnv(unpulled)
         /\ \E files \in RunFiles, order \in {TRACKED_CRATES} :
              input = [files |-> files,
                       fetch |-> [c \in {TRACKED_CRATES[k] : k \in 1..Len(TRACKED_CRATES)} |->
                                    Some(<<"2">>)],
                       order |-> order,
                       unpulled |-> unpulled]
    /\ CallInit
    /\ ParOff
    /\ ScanStartState
    /\ dry_run \in BOOLEAN
    /\ stage = "first"

\* The handler has returned; the next pipeline event starts the second run,
\* for which the registry answers as before.
NextRun ==
    /\ dpc = "finished"
    /\ stage = "first"
    /\ stage' = "second"
    /\ dpc' = "fetch"
    /\ pending_updates' = <<>>
    /\ idx' = 1
    /\ committed' = <<>>
    /\ errors' = <<>>
    /\ config_synced' = FALSE
    /\ sync_requests' = <<>>
    /\ output' = [latest_versions |-> <<>>, k |-> 1, i |-> 1, version_reports |-> <<>>,
                  warned |-> <<>>,
                  previous |-> RunSummary(pending_updates, committed, errors)]
    /\ UNCHANGED <<input, dry_run, parVars, envVars, callVars>>

RunNext ==
    \/ FetchLatestVersion
    \/ ScanManifest
    \/ ScanWorkflow
    \/ ApplyCall
    \/ CommitFileStep
    \/ ApplyRecord
    \/ ApplyEnd
    \/ ApplyDryRun
    \/ ConfigSync
    \/ RemoteChange
    \/ NextRun

RunSpec == RunInit /\ [][RunNext]_vars

\* ================================================================== claims

LocalSteps == {"mkdir", "write", "add", "commit", "push", "revparse"}
GhSteps == {"gh_get", "gh_put"}

StepAt(name) == {i \in DOMAIN steps : steps[i].step = name}
Executed(name) == StepAt(name) # {}
Succeeded(name) == \E i \in StepAt(name) : steps[i].outcome = ExitOk
Failed(name) == \E i \in StepAt(name) : steps[i].outcome # ExitOk

\* The remote attempt succeeded: GET and PUT both did.
GhSucceeded == Succeeded("gh_get") /\ Succeeded("gh_put")
\* The remote attempt failed: its GET or its PUT did.
GhFailed == Failed("gh_get") \/ Failed("gh_put")
LocalStepExecuted == \E n \in LocalSteps : Executed(n)

\* C1: if the gh attempt of an invocation succeeds, the invocation returns a
\* CommitResult with strategy GhCli that carries the commit id the API
\* returned, and no local-checkout step is executed; a local-checkout step is
\* executed only after a gh step of the same invocation has failed.
C1_GhSuccessSkipsLocal ==
    /\ GhSucceeded =>
         /\ pc = "done"
         /\ Len(landed) = 1
         /\ landed[1].via = "gh"
         /\ result = OkResult(args, "GhCli", landed[1].id)
         /\ ~LocalStepExecuted
    /\ \A i \in DOMAIN steps :
         steps[i].step \in LocalSteps =>
            \E j \in 1..(i - 1) :
                steps[j].step \in GhSteps /\ steps[j].outcome # ExitOk

C1_Witness ==
    /\ pc = "done"
    /\ GhSucceeded
    /\ result.kind = "ok"
    /\ result.strategy = "GhCli"
    /\ result.sha = <<"c", "1">>

\* C2: when the gh attempt fails and no local checkout was supplied, the
\* invocation returns the no-local-base error, executes no local step (no file
\* write, no git command) and leaves every checkout as it was.
C2_NoBaseNoFallback ==
    (pc # "idle" /\ args.local_base = None /\ GhFailed) =>
        /\ pc = "done"
        /\ result = ErrResult(args, "no_local_base")
        /\ ~LocalStepExecuted
        /\ checkout = pre.checkout

C2_Witness ==
    /\ pc = "done"
    /\ args.local_base = None
    /\ Failed("gh_put")
    /\ result.kind = "err"
    /\ result.error = "no_local_base"

\* C3 as stated: when the gh attempt fails and a checkout is supplied on which
\* write, add, commit and push all succeed, the invocation returns a
\* CommitResult with strategy LocalGit and a non-empty commit id.
C3_Original ==
    (/\ pc = "done"
     /\ GhFailed
     /\ args.local_base # None
     /\ Succeeded("write") /\ Succeeded("add")
     /\ Succeeded("commit") /\ Succeeded("push")) =>
        /\ result.kind = "ok"
        /\ result.strategy = "LocalGit"
        /\ result.sha # <<>>

\* C3 amended: when the gh attempt fails and a checkout is supplied on which
\* write, add, commit, push and the rev-parse of the new head all succeed, the
\* invocation returns a CommitResult with strategy LocalGit and a non-empty
\* commit id.
C3_LocalSuccessReturnsLocalGit ==
    (/\ pc = "done"
     /\ GhFailed
     /\ args.local_base # None
     /\ Succeeded("write") /\ Succeeded("add")
     /\ Succeeded("commit") /\ Succeeded("push")
     /\ Succeeded("revparse")) =>
        /\ result.kind = "ok"
        /\ result.strategy = "LocalGit"
        /\ result.sha # <<>>

C3_Witness ==
    /\ pc = "done"
    /\ Failed("gh_get")
    /\ Succeeded("push")
    /\ Succeeded("revparse")
    /\ result.strategy = "LocalGit"
    /\ result.sha = <<"h", "1">>

\* C4: in the local attempt a failure of any step (directory and file write,
\* git add, git commit, git push, git rev-parse; a non-zero exit is a failure)
\* makes the invocation return an error, and nothing runs after the failed step.
C4_FailedLocalStepIsError ==
    /\ (pc = "done" /\ \E n \in LocalSteps : Failed(n)) => result.kind = "err"
    /\ \A i \in DOMAIN steps :
         (steps[i].step \in LocalSteps /\ steps[i].outcome # ExitOk) => i = Len(steps)

\* C5: whenever the invocation returns an error it has left no side effect:
\* every checkout (working tree, index, HEAD) is as it was when the invocation
\* started and the invocation has landed no commit on a remote.
C5_ErrorLeavesNoSideEffect ==
    (pc = "done" /\ result.kind = "err") =>
        /\ checkout = pre.checkout
        /\ landed = <<>>

\* C6: the strategy of a CommitResult names the strategy whose steps all
\* succeeded in the invocation: GhCli only if GET and PUT succeeded, LocalGit
\* only if the gh attempt failed and every step of the local attempt succeeded.
C6_StrategyNamesSucceededStrategy ==
    result.kind = "ok" =>
        /\ result.strategy \in {"GhCli", "LocalGit"}
        /\ result.strategy = "GhCli" => GhSucceeded
        /\ result.strategy = "LocalGit" =>
              /\ GhFailed
              /\ \A n \in LocalSteps : Succeeded(n)

\* C7: an invocation ends with exactly one outcome, a CommitResult or an
\* error; until then it has none and a next step is always possible; every
\* step is executed at most once, the gh steps before the local steps.
C7_ExactlyOneOutcome ==
    /\ pc = "done" => result.kind \in {"ok", "err"}
    /\ result.kind = "ok" => (result.strategy # None /\ result.error = None)
    /\ result.kind = "err" => (result.strategy = None /\ result.error # None)
    /\ pc \notin {"idle", "done"} => (result.kind = "none" /\ ENABLED CommitFileStep)
    /\ \A n \in GhSteps \cup LocalSteps : Cardinality(StepAt(n)) <= 1
    /\ \A i, j \in DOMAIN steps :
         (i < j /\ steps[i].step \in LocalSteps) => steps[j].step \in LocalSteps

C7_Witness ==
    /\ pc = "done"
    /\ result.kind = "err"
    /\ Len(steps) = 8
    /\ steps[2].step = "gh_put"
    /\ steps[8].step = "revparse"

\* C8: an invocation lands its content on a remote through at most one
\* backend, and when it returns a CommitResult the content it was given has
\* been landed on the target repository by exactly the backend the result names.
C8_PersistedOnceByNamedBackend ==
    /\ Len(landed) <= 1
    /\ result.kind = "ok" =>
         /\ Len(landed) = 1
         /\ landed[1].repo = args.repo
         /\ landed[1].file = args.file_path
         /\ landed[1].content = args.content
         /\ landed[1].via = (IF result.strategy = "GhCli" THEN "gh" ELSE "push")

C8_Witness ==
    /\ pc = "done"
    /\ result.kind = "ok"
    /\ result.strategy = "LocalGit"
    /\ Failed("gh_put")
    /\ Len(landed) = 1
    /\ landed[1].via = "push"

\* C9: the PUT is issued only after the GET of the same invocation succeeded
\* and carries exactly the blob id that GET returned, so a PUT that lands
\* replaces only the content the GET saw: if the file was changed in between,
\* the gh attempt fails.
C9_PutCarriesBlobOfGet ==
    /\ pc = "gh_put" => (Succeeded("gh_get") /\ PutShaField = steps[1].data)
    /\ \A i \in StepAt("gh_put") :
         /\ i = 2
         /\ steps[1].step = "gh_get"
         /\ steps[1].outcome = ExitOk
         /\ steps[i].data = steps[1].data
    /\ \A k \in DOMAIN landed :
         landed[k].via = "gh" => BlobOf(landed[k].over) = steps[1].data

C9_Witness ==
    /\ Succeeded("gh_get")
    /\ Failed("gh_put")
    /\ steps[1].data = BlobOf(OldContent)
    /\ remote[args.repo].files[args.file_path] = OtherContent
    /\ landed = <<>>

\* C10: in the apply phase of a run that is not a dry run, commit_file is
\* called exactly once for every pending update, one at a time in list order,
\* whatever the earlier calls returned, and every update that was processed is
\* recorded exactly once, in committed or in errors; at the end
\* committed + errors = pending updates.
Target(u) == <<u.repo, u.file_path>>
TargetOf(e) == <<e.repo, e.file>>
Records(i) ==
    Cardinality({k \in DOMAIN committed : TargetOf(committed[k]) = Target(pending_updates[i])})
  + Cardinality({k \in DOMAIN errors : TargetOf(errors[k]) = Target(pending_updates[i])})

C10_EveryPendingUpdateAttemptedOnce ==
    ~dry_run =>
        /\ idx \in 1..(Len(pending_updates) + 1)
        /\ calls = (IF pc = "idle" THEN idx - 1 ELSE idx)
        /\ pc # "idle" =>
              /\ idx <= Len(pending_updates)
              /\ args = CommitArgs(pending_updates[idx])
        /\ Len(committed) + Len(errors) = idx - 1
        /\ \A i \in 1..(idx - 1) : Records(i) = 1
        /\ dpc \in {"sync", "finished"} =>
              /\ calls = Len(pending_updates)
              /\ Len(committed) + Len(errors) = Len(pending_updates)

C10_Witness ==
    /\ dpc = "finished"
    /\ ~dry_run
    /\ Len(pending_updates) = 2
    /\ Len(errors) = 1
    /\ Len(committed) = 1
    /\ TargetOf(errors[1]) = Target(pending_updates[1])
    /\ TargetOf(committed[1]) = Target(pending_updates[2])

\* C20: the local attempt runs create-directory/write, git add, git commit,
\* git push, git rev-parse in this order, each at most once; a step is executed
\* only after every earlier local step of the same invocation succeeded (so a
\* push is preceded by a successful commit of this invocation), and a failed
\* local step is the last step of the invocation.
LocalOrder == <<"mkdir", "write", "add", "commit", "push", "revparse">>
LocalPart == SelectSeq(steps, LAMBDA s : s.step \in LocalSteps)

C20_LocalStepsInOrder ==
    /\ Len(LocalPart) <= Len(LocalOrder)
    /\ \A i \in DOMAIN LocalPart :
         /\ LocalPart[i].step = LocalOrder[i]
         /\ \A j \in 1..(i - 1) : LocalPart[j].outcome = ExitOk
    /\ Executed("push") => Succeeded("commit")
    /\ \A i \in DOMAIN steps :
         (steps[i].step \in LocalSteps /\ steps[i].outcome # ExitOk) =>
            /\ i = Len(steps)
            /\ pc = "done"

C20_Witness ==
    /\ pc = "done"
    /\ Len(LocalPart) = 5
    /\ LocalPart[4].step = "commit"
    /\ LocalPart[4].outcome = ExitOk
    /\ LocalPart[5].step = "push"
    /\ LocalPart[5].outcome = NonZero

\* C11: two invocations that target distinct repositories and distinct
\* checkouts do not disturb each other. Under every interleaving of their
\* steps, the outcome of each invocation and the state of its own repository
\* and checkout are what the invocation produces when it runs alone from the
\* initial state with the same step outcomes, which is also what it produces
\* when the two run one after the other.
View(p) == IF cur = p THEN CallState ELSE parked

StepOk(v, name) ==
    \E i \in DOMAIN v.steps : v.steps[i].step = name /\ v.steps[i].outcome = ExitOk
StepFailed(v, name) ==
    \E i \in DOMAIN v.steps : v.steps[i].step = name /\ v.steps[i].outcome # ExitOk
StepOutcome(v, name) ==
    v.steps[CHOOSE i \in DOMAIN v.steps : v.steps[i].step = name].outcome

\* The files of a repository or checkout after the invocation put its content
\* in place, and before.
FilesBefore == [f \in Files |-> OldContent]
FilesAfter(v) == [FilesBefore EXCEPT ![v.args.file_path] = v.args.content]

\* The remote of an invocation that runs alone.
AloneRemote(v) ==
    IF StepOk(v, "gh_put") \/ StepOk(v, "push")
    THEN [files |-> FilesAfter(v), rev |-> 1]
    ELSE [files |-> FilesBefore, rev |-> 0]

\* The checkouts an invocation that runs alone can leave.
AloneCheckouts(v) ==
    {[wt |-> wt,
      index |-> IF StepOk(v, "add") THEN FilesAfter(v) ELSE FilesBefore,
      head |-> IF StepOk(v, "commit") THEN FilesAfter(v) ELSE FilesBefore,
      headId |-> IF StepOk(v, "commit") THEN 1 ELSE 0,
      baseRev |-> IF StepOk(v, "push") THEN 1 ELSE 0] :
        wt \in IF StepOk(v, "write") THEN {FilesAfter(v)}
               ELSE IF StepFailed(v, "write")
                    THEN {FilesBefore,
                          [FilesBefore EXCEPT ![v.args.file_path] = Truncated]}
                    ELSE {FilesBefore}}

\* What an invocation that runs alone returns.
AloneResult(v) ==
    IF v.pc # "done" THEN NoResult
    ELSE IF StepOk(v, "gh_put") THEN OkResult(v.args, "GhCli", CommitSha(1))
    ELSE IF v.args.local_base = None THEN ErrResult(v.args, "no_local_base")
    ELSE IF StepOk(v, "revparse") THEN OkResult(v.args, "LocalGit", ShortHash(1))
    ELSE IF StepFailed(v, "revparse") /\ StepOutcome(v, "revparse") = NonZero
         THEN OkResult(v.args, "LocalGit", <<>>)
    ELSE ErrResult(v.args, "local_git_failed")

C11_InterleavingHasNoEffect ==
    parked.pc # "none" =>
        \A p \in {1, 2} :
            /\ View(p).result = AloneResult(View(p))
            /\ remote[View(p).args.repo] = AloneRemote(View(p))
            /\ checkout[View(p).args.repo] \in AloneCheckouts(View(p))

\* Both invocations went through the local attempt, their steps interleaved:
\* the first pushed after the second had committed and before it pushed.
C11_Witness ==
    /\ parked.pc # "none"
    /\ View(1).pc = "push"
    /\ View(2).pc = "done"
    /\ StepOk(View(1), "commit")
    /\ StepOk(View(2), "push")
    /\ StepOk(View(2), "revparse")
    /\ checkout["r1"].headId = 1
    /\ remote["r2"].rev = 1
    /\ remote["r1"].rev = 0

\* C12: needs_update(current, latest) is true exactly when the triple (major,
\* minor, patch) of latest is greater, lexicographically, than that of current.
\* The triple is read off the text: the first three fields between the
\* separators '.', '-' and '+'; whatever follows the third field is ignored.
SeparatorsAt(v) == {i \in 1..Len(v) : v[i] = "." \/ v[i] = "-" \/ v[i] = "+"}

\* Position of the k-th separator of v: 0 for k = 0, past the end if v has
\* fewer separators.
SepPos(v, k) ==
    IF k = 0 THEN 0
    ELSE IF Cardinality(SeparatorsAt(v)) < k THEN Len(v) + 1
    ELSE CHOOSE i \in SeparatorsAt(v) :
            Cardinality({j \in SeparatorsAt(v) : j <= i}) = k

FieldPresent(v, k) == Cardinality(SeparatorsAt(v)) >= k - 1
FieldOf(v, k) == SubSeq(v, SepPos(v, k - 1) + 1, SepPos(v, k) - 1)
IsNumeric(f) == f # <<>> /\ \A i \in 1..Len(f) : f[i] \in Digits

\* Decimal numerals compared by value, digit by digit after padding.
PadTo(f, n) == [i \in 1..n |-> IF i <= n - Len(f) THEN "0" ELSE f[i - (n - Len(f))]]
Longest(f, g) == IF Len(f) < Len(g) THEN Len(g) ELSE Len(f)
DecimalEq(f, g) == PadTo(f, Longest(f, g)) = PadTo(g, Longest(f, g))
DecimalLess(f, g) ==
    LET a == PadTo(f, Longest(f, g))
        b == PadTo(g, Longest(f, g))
    IN  \E i \in 1..Longest(f, g) :
            /\ a[i] # b[i]
            /\ DigitVal(a[i]) < DigitVal(b[i])
            /\ \A j \in 1..(i - 1) : a[j] = b[j]

\* The value of field k as the claim states it: 0 for a missing or
\* non-numeric field, else the number the field denotes.
ValueAsStated(v, k) ==
    IF FieldPresent(v, k) /\ IsNumeric(FieldOf(v, k)) THEN FieldOf(v, k) ELSE <<"0">>

\* The value of field k: 0 also for a number above 2^64 - 1.
ValueInU64(v, k) ==
    IF /\ FieldPresent(v, k)
       /\ IsNumeric(FieldOf(v, k))
       /\ ~DecimalLess(U64Max, FieldOf(v, k))
    THEN FieldOf(v, k)
    ELSE <<"0">>

GreaterBy(Val(_, _), l, c) ==
    \/ DecimalLess(Val(c, 1), Val(l, 1))
    \/ /\ DecimalEq(Val(c, 1), Val(l, 1))
       /\ \/ DecimalLess(Val(c, 2), Val(l, 2))
          \/ /\ DecimalEq(Val(c, 2), Val(l, 2))
             /\ DecimalLess(Val(c, 3), Val(l, 3))

\* v without everything from its third separator on
FirstThree(v) == SubSeq(v, 1, SepPos(v, 3) - 1)

\* C12 as stated: every numeric field counts with the number it denotes.
C12_Original ==
    stage = "returned" =>
        /\ output = GreaterBy(ValueAsStated, input.latest, input.current)
        /\ output = needs_update(FirstThree(input.current), FirstThree(input.latest))

\* C12 amended: needs_update(current, latest) is true exactly when the triple
\* of latest is lexicographically greater than the triple of current, where a
\* field counts as 0 if it is missing, not a run of decimal digits, or a number
\* above 2^64 - 1; what follows the third field never affects the result.
C12_NeedsUpdateComparesTriples ==
    stage = "returned" =>
        /\ output = GreaterBy(ValueInU64, input.latest, input.current)
        /\ output = needs_update(FirstThree(input.current), FirstThree(input.latest))

C12_Witness ==
    /\ stage = "returned"
    /\ input.current = <<"1", "-", "1", ".", "a">>
    /\ input.latest = <<"1", ".", "2", ".", "3", "+", "4">>
    /\ output = TRUE

\* The pattern the sed expressions of a workflow file follow, read off the
\* text: a pipe, the package name, ` = "`, a value that starts with a digit
\* and runs up to the next double quote.
ValueStart(p, i) == i + Len(p) + 5

OccursAt(c, p, i) ==
    /\ ValueStart(p, i) <= Len(c)
    /\ c[i] = "|"
    /\ \A k \in 1..Len(p) : c[i + k] = p[k]
    /\ c[i + Len(p) + 1] = " "
    /\ c[i + Len(p) + 2] = "="
    /\ c[i + Len(p) + 3] = " "
    /\ c[i + Len(p) + 4] = Quote
    /\ c[ValueStart(p, i)] \in Digits
    /\ \E j \in (ValueStart(p, i) + 1)..Len(c) : c[j] = Quote

Occurrences(c, p) == {i \in 1..Len(c) : OccursAt(c, p, i)}

\* Position of the quote that closes the occurrence at i, and its value.
CloseOf(c, p, i) ==
    CHOOSE j \in (ValueStart(p, i) + 1)..Len(c) :
        /\ c[j] = Quote
        /\ \A m \in (ValueStart(p, i) + 1)..(j - 1) : c[m] # Quote
ValueAt(c, p, i) == SubSeq(c, ValueStart(p, i), CloseOf(c, p, i) - 1)

\* C17: patching the output of patch_workflow_sed again, for the same package
\* and new version, returns that output, whatever the new version is.
C17_PatchWorkflowIdempotent ==
    stage = "repatched" => output[2] = output[1]

\* C18: patch_workflow_sed returns a text for every input, and when the
\* content holds no occurrence of the pattern for the package, the text it
\* returns is the content.
C18_NoOccurrenceNoChange ==
    /\ stage = "args" => ENABLED PatchWorkflow
    /\ (stage = "patched" /\ Occurrences(input.content, input.dep_name) = {}) =>
            output[1] = input.content

\* The content names the package at the start of a sed expression without a
\* digit-led value, and the other package in a full one.
C18_Witness ==
    /\ stage = "patched"
    /\ input.dep_name = <<"a">>
    /\ input.new_version = <<"2">>
    /\ input.content = Group1(<<"a">>) \o Group1(<<"b">>) \o <<"1", Quote>>
    /\ output[1] = input.content

\* The occurrences patch_workflow_sed has to rewrite: every occurrence of the
\* pattern that does not start inside an occurrence to its left which is
\* itself rewritten.
RewrittenAt(c, p) ==
    CHOOSE S \in SUBSET Occurrences(c, p) :
        \A i \in Occurrences(c, p) :
            i \in S <=> ~\E k \in S : k < i /\ i <= CloseOf(c, p, k)

\* Position j of c lies in the version value of a rewritten occurrence.
InValue(c, p, j) ==
    \E i \in RewrittenAt(c, p) : ValueStart(p, i) <= j /\ j < CloseOf(c, p, i)

\* Where a position of c outside the rewritten values is found in the output:
\* behind what is kept of the text to its left and one new version for every
\* value to its left.
ImageOf(c, p, v, j) ==
    Cardinality({k \in 1..j : ~InValue(c, p, k)})
    + Len(v) * Cardinality({i \in RewrittenAt(c, p) : ValueStart(p, i) < j})

\* C19: every occurrence of the pattern for the package is rewritten: in the
\* output each occurrence for the package carries the new version, each
\* rewritten occurrence has the new version as its value, everything outside
\* the rewritten values is where and what it was, and the occurrences of the
\* pattern for another package outside those values are occurrences of the
\* output with their values.
C19_EveryOccurrenceRewritten ==
    stage = "patched" =>
        LET c == input.content
            p == input.dep_name
            v == input.new_version
            o == output[1]
        IN  /\ \A i \in Occurrences(o, p) : ValueAt(o, p, i) = v
            /\ Len(o) = Cardinality({k \in 1..Len(c) : ~InValue(c, p, k)})
                        + Len(v) * Cardinality(RewrittenAt(c, p))
            /\ \A j \in 1..Len(c) :
                 ~InValue(c, p, j) => o[ImageOf(c, p, v, j)] = c[j]
            /\ \A i \in RewrittenAt(c, p) :
                 SubSeq(o, ImageOf(c, p, v, CloseOf(c, p, i)) - Len(v),
                           ImageOf(c, p, v, CloseOf(c, p, i)) - 1) = v
            /\ \A q \in PackageNames \ {p} :
                 \A i \in Occurrences(c, q) :
                    (\A j \in i..CloseOf(c, q, i) : ~InValue(c, p, j)) =>
                        /\ OccursAt(o, q, ImageOf(c, p, v, i))
                        /\ ValueAt(o, q, ImageOf(c, p, v, i)) = ValueAt(c, q, i)

\* The entry of package p as the manifest declares it: its dependency item.
Declared(text, p) == SubItem(Parse(text), "dependencies", p)
KeysOf(item) ==
    IF item.k = "table" THEN {item.entries[i].key : i \in DOMAIN item.entries}
    ELSE IF item.k = "value" /\ item.value.type = "inline"
         THEN {item.value.fields[i].key : i \in DOMAIN item.value.fields}
         ELSE {}
IsTableForm(item) == item.k = "table" \/ (item.k = "value" /\ item.value.type = "inline")

\* C13: when the entry of p is a table, inline or with a header of its own,
\* that has a path key, current_dep_version returns none, with or without a
\* version key, and the driver neither reports p as stale nor calls
\* patch_cargo_toml nor changes the file.
C13_PathDependencyHasNoVersion ==
    (/\ stage \in {"read", "scanned"}
     /\ Parse(input.content).ok
     /\ IsTableForm(Declared(input.content, input.dep_name))
     /\ "path" \in KeysOf(Declared(input.content, input.dep_name))) =>
        /\ output.current = NoneOption
        /\ stage = "scanned" =>
              /\ ~output.reported
              /\ ~output.patch_called
              /\ ~output.file_changed
              /\ output.patched = input.content

\* A path dependency with a stale version key, in a table with a header of
\* its own, went through the driver's loop.
C13_Witness ==
    /\ stage = "scanned"
    /\ input.new_version = <<"2">>
    /\ input.content = <<HeaderLine(<<"dependencies", "p">>),
                         EntryLine("version", StringValue(OldVersion), NoDecor),
                         EntryLine("path", PathValue, NoDecor)>>
    /\ output.current = NoneOption
    /\ ~output.file_changed

\* C14: when the manifest declares p as a bare version string, patch_cargo_toml
\* with any new version succeeds, and current_dep_version of the text it
\* returns is the new version.
IsBareString(item) == item.k = "value" /\ item.value.type = "string"

C14_PatchThenReadRoundTrip ==
    (/\ stage \in {"patched", "reread"}
     /\ Parse(input.content).ok
     /\ IsBareString(Declared(input.content, input.dep_name))) =>
        /\ output.result.ok
        /\ stage = "patched" => ENABLED ReadPatchedVersion
        /\ stage = "reread" => output.current = Some(input.new_version)

C14_Witness ==
    /\ stage = "reread"
    /\ input.new_version = <<"0">>
    /\ input.content = <<HeaderLine(<<"dependencies">>),
                         EntryLine("q", StringValue(OldVersion), NoDecor),
                         EntryLine("p", StringValue(OldVersion), "# pinned")>>
    /\ output.current = Some(<<"0">>)

\* The table a line of a manifest text belongs to: the path of the last
\* header above it.
SectionOf(text, i) ==
    IF \E h \in 1..(i - 1) : text[h].kind = "header"
    THEN text[CHOOSE h \in 1..(i - 1) :
                /\ text[h].kind = "header"
                /\ \A g \in (h + 1)..(i - 1) : text[g].kind # "header"].path
    ELSE <<>>

\* Line i of the text holds the version of package p.
HoldsVersionOf(text, p, i) ==
    /\ text[i].kind = "entry"
    /\ \/ SectionOf(text, i) = <<"dependencies">> /\ text[i].key = p
       \/ SectionOf(text, i) = <<"dependencies", p>> /\ text[i].key = "version"

\* The fields of an inline table other than its version, in order.
OtherFields(value) == SelectSeq(value.fields, LAMBDA f : f.key # "version")
FieldKeys(value) == [i \in DOMAIN value.fields |-> value.fields[i].key]

NotFoundErrors == {"no_dependencies_section", "not_found"}
ShapeErrors == {"unexpected_shape"}

C16_MissingAndMisshapenAreErrors ==
    (stage = "patched" /\ Parse(input.content).ok) =>
        /\ RootItem(Parse(input.content), "dependencies").k # "table" =>
              /\ ~output.result.ok
              /\ output.result.text = None
              /\ output.result.error \in NotFoundErrors
        /\ (/\ RootItem(Parse(input.content), "dependencies").k = "table"
            /\ Declared(input.content, input.dep_name).k = "absent") =>
              /\ ~output.result.ok
              /\ output.result.text = None
              /\ output.result.error \in NotFoundErrors
        /\ (/\ Declared(input.content, input.dep_name).k = "value"
            /\ Declared(input.content, input.dep_name).value.type
                  \notin {"string", "inline"}) =>
              /\ ~output.result.ok
              /\ output.result.text = None
              /\ output.result.error \in ShapeErrors

\* C27: when the entry of p is a table, inline or with a header of its own,
\* that has no version key, patch_cargo_toml returns success with the text it
\* was given, the entry still has no version key, and current_dep_version of
\* the returned text is not the new version.
C27_TableWithoutVersionIsLeftAlone ==
    (/\ stage \in {"patched", "reread"}
     /\ Parse(input.content).ok
     /\ IsTableForm(Declared(input.content, input.dep_name))
     /\ "version" \notin KeysOf(Declared(input.content, input.dep_name))) =>
        /\ output.result.ok
        /\ Parse(output.result.text) = Parse(input.content)
        /\ "version" \notin KeysOf(Declared(output.result.text, input.dep_name))
        /\ stage = "patched" => ENABLED ReadPatchedVersion
        /\ stage = "reread" => output.current # Some(input.new_version)

\* p has a header of its own and no key at all; the patch succeeded and
\* the text read back has no version for p.
C27_Witness ==
    /\ stage = "reread"
    /\ input.new_version = <<"2">>
    /\ input.content = <<HeaderLine(<<"dependencies">>),
                         EntryLine("q", StringValue(OldVersion), NoDecor),
                         HeaderLine(<<"dependencies", "p">>)>>
    /\ output.result.ok
    /\ output.result.text = input.content
    /\ output.current = NoneOption

\* C23: in a dry run commit_file is never called and config sync is never
\* requested: the repositories and checkouts stay as they were, errors stays
\* empty, config_synced is false, and once phase 4 is over committed holds one
\* dry-run entry per pending update, in the order of the pending updates.
C23_DryRunTouchesNothing ==
    dry_run =>
        /\ calls = 0
        /\ pc = "idle"
        /\ steps = <<>>
        /\ remote = [r \in Repos |-> [files |-> [f \in Files |-> OldContent], rev |-> 0]]
        /\ checkout = [r \in Repos |-> CleanCheckout]
        /\ errors = <<>>
        /\ ~config_synced
        /\ sync_requests = <<>>
        /\ dpc = "apply" => committed = <<>>
        /\ dpc = "sync" => ENABLED ConfigSync
        /\ dpc \in {"sync", "finished"} =>
              /\ Len(committed) = Len(pending_updates)
              /\ \A i \in DOMAIN committed :
                    /\ committed[i].dry_run
                    /\ TargetOf(committed[i]) = Target(pending_updates[i])

\* A dry run with two pending updates has finished.
C23_Witness ==
    /\ dpc = "finished"
    /\ dry_run
    /\ Len(pending_updates) = 2
    /\ Len(committed) = 2
    /\ committed[2].dry_run
    /\ ~config_synced

\* C26: config sync is requested at most once per run, only in phase 5 after
\* every pending update has been attempted, and exactly when the run is not a
\* dry run and at least one commit succeeded; config_synced is true only for a
\* response with a success status, and the run finishes whatever the response.
C26_ConfigSyncOnceAfterCommits ==
    /\ Len(sync_requests) <= 1
    /\ dpc \in {"apply", "sync"} => sync_requests = <<>> /\ ~config_synced
    /\ dpc = "sync" =>
          /\ pc = "idle"
          /\ idx = Len(pending_updates) + 1
          /\ ENABLED ConfigSync
    /\ dpc = "finished" =>
          /\ pc = "idle"
          /\ Len(committed) + Len(errors) = Len(pending_updates)
          /\ sync_requests # <<>> <=>
                (~dry_run /\ \E k \in DOMAIN committed : ~committed[k].dry_run)
          /\ config_synced <=> sync_requests = <<"success">>

\* Of two pending updates one was committed and one failed, the sync request
\* was sent and rejected, and the run finished.
C26_Witness ==
    /\ dpc = "finished"
    /\ ~dry_run
    /\ Len(committed) = 1
    /\ Len(errors) = 1
    /\ sync_requests = <<"non_success">>
    /\ ~config_synced

\* C29: patch_cargo_toml for p and then q succeeds exactly when it does for q
\* and then p, and then both return the same text; the patched content and the
\* changed flag the driver's loop ends with are the same for both orders in
\* which the map of latest versions can hand out p and q.
C29_PatchesCommute ==
    stage = "two" =>
        /\ output.pq.ok = output.qp.ok
        /\ output.pq.ok => output.pq.text = output.qp.text
        /\ output.scan_pq.patched = output.scan_qp.patched
        /\ output.scan_pq.file_changed = output.scan_qp.file_changed

\* p, an inline table, and q, a bare string, are both stale and both patched.
C29_Witness ==
    /\ stage = "two"
    /\ input.new_version = <<"2">>
    /\ output.other_version = <<"2">>
    /\ input.content =
         <<HeaderLine(<<"dependencies">>),
           EntryLine("p", InlineTable(<<Field("version", StringValue(OldVersion)),
                                        Field("features", ArrayValue)>>), NoDecor),
           EntryLine("q", StringValue(OldVersion), NoDecor)>>
    /\ output.pq.ok
    /\ output.pq.text[3] = EntryLine("q", StringValue(<<"2">>), NoDecor)
    /\ output.pq.text[2] # input.content[2]
    /\ output.scan_qp.file_changed
    /\ output.scan_qp.patched = output.pq.text

\* The position in ScanOrder of the file a pending update is for.
FileOf(u) ==
    CHOOSE i \in 1..Len(ScanOrder) :
        ScanOrder[i].repo = u.repo /\ ScanOrder[i].file_path = u.file_path

\* The comparator finds a tracked crate of the manifest older than its latest
\* version.
StaleManifest(text, latest_versions) ==
    \E c \in DOMAIN latest_versions :
        /\ current_dep_version(text, c).some
        /\ needs_update(current_dep_version(text, c).val, latest_versions[c])

\* The version literals the workflow file carries for the sdk crate.
Literals(text) ==
    {ValueAt(text, CrateChars(SdkCrate), i) : i \in Occurrences(text, CrateChars(SdkCrate))}

\* C21: every pending update phase 2 queues is for a file in which the
\* comparator finds the latest version strictly newer than the version the
\* file carries: a manifest with a stale tracked crate, or a workflow file
\* with a stale version literal and no literal newer than the latest version.
C21_QueuedOnlyWhenStale ==
    \A k \in DOMAIN pending_updates :
        LET i == FileOf(pending_updates[k])
            text == input.files[i].val
        IN  IF IsCargoFile(ScanOrder[i])
            THEN StaleManifest(text, output.latest_versions)
            ELSE /\ SdkCrate \in DOMAIN output.latest_versions
                 /\ \E v \in Literals(text) :
                        needs_update(v, output.latest_versions[SdkCrate])
                 /\ \A v \in Literals(text) :
                        ~needs_update(output.latest_versions[SdkCrate], v)

\* C28: the pending updates of a run are for pairwise different (repository,
\* file) pairs, and the one pending update of a manifest carries the patches
\* of all its stale tracked crates: in its patched content every crate that
\* was stale has its latest version.
C28_OnePendingUpdatePerFile ==
    /\ \A k, l \in DOMAIN pending_updates :
          Target(pending_updates[k]) = Target(pending_updates[l]) => k = l
    /\ \A k \in DOMAIN pending_updates :
          LET i == FileOf(pending_updates[k])
              text == input.files[i].val
              new == TextOf(i, pending_updates[k].patched_content)
          IN  IsCargoFile(ScanOrder[i]) =>
                \A c \in DOMAIN output.latest_versions :
                    (/\ current_dep_version(text, c).some
                     /\ needs_update(current_dep_version(text, c).val,
                                     output.latest_versions[c])) =>
                        current_dep_version(new, c) = Some(output.latest_versions[c])

\* Both tracked crates were stale in the first manifest: two reports, one
\* pending update, and phase 2 is over.
C28_Witness ==
    /\ dpc = "apply"
    /\ input.files[1] = Some(<<HeaderLine(<<"dependencies">>),
                               EntryLine("p", StringValue(OldVersion), NoDecor),
                               EntryLine("q", StringValue(OldVersion), NoDecor)>>)
    /\ ~input.files[3].some
    /\ Len(output.version_reports) = 2
    /\ Len(SelectSeq(pending_updates, LAMBDA u : IsCargoFile(u))) = 1
    /\ TextOf(1, pending_updates[1].patched_content) =
          <<HeaderLine(<<"dependencies">>),
            EntryLine("p", StringValue(<<"2">>), NoDecor),
            EntryLine("q", StringValue(<<"2">>), NoDecor)>>

\* The tracked crates, and the managed manifests phase 2 has read so far.
Tracked == {TRACKED_CRATES[k] : k \in 1..Len(TRACKED_CRATES)}
ManifestsRead ==
    {i \in 1..(output.i - 1) : IsCargoFile(ScanOrder[i]) /\ input.files[i].some}
PendingFor(i) == {k \in DOMAIN pending_updates : FileOf(pending_updates[k]) = i}
Reported(c) == \E n \in DOMAIN output.version_reports : output.version_reports[n].crate_name = c

\* C24: a failed fetch ends nothing: every tracked crate is asked for, and
\* phase 2 follows with the versions of the crates whose fetch succeeded. A
\* crate without a latest version is never reported, its version stays as it
\* is in every queued manifest, and without the sdk's version no workflow
\* file is queued; a manifest is queued exactly when the patch of some stale
\* crate succeeded, whatever the patches of its other crates returned, and
\* its patched content has the latest version of every such crate.
C24_FailuresAreSkipped ==
    /\ dpc = "fetch" => ENABLED FetchLatestVersion
    /\ dpc = "scan" => output.i \in 1..Len(ScanOrder)
    /\ dpc \in {"scan", "apply"} =>
          /\ DOMAIN output.latest_versions = {c \in Tracked : input.fetch[c].some}
          /\ \A c \in DOMAIN output.latest_versions :
                output.latest_versions[c] = input.fetch[c].val
    /\ \A c \in Tracked : ~input.fetch[c].some =>
          /\ ~Reported(c)
          /\ \A k \in DOMAIN pending_updates :
                LET i == FileOf(pending_updates[k])
                    text == input.files[i].val
                    new == TextOf(i, pending_updates[k].patched_content)
                IN  IF IsCargoFile(ScanOrder[i])
                    THEN /\ current_dep_version(new, c) = current_dep_version(text, c)
                         /\ \A j \in DOMAIN text :
                               HoldsVersionOf(text, c, j) => new[j] = text[j]
                    ELSE c # SdkCrate
    /\ \A i \in ManifestsRead :
          LET text == input.files[i].val
              Stale(c) == /\ c \in DOMAIN output.latest_versions
                          /\ current_dep_version(text, c).some
                          /\ needs_update(current_dep_version(text, c).val,
                                          output.latest_versions[c])
              Patched(c) == /\ Stale(c)
                            /\ patch_cargo_toml(text, c, output.latest_versions[c]).ok
          IN  /\ \A c \in Tracked : Stale(c) => Reported(c)
              /\ (\E c \in Tracked : Patched(c)) <=> PendingFor(i) # {}
              /\ \A c \in Tracked, k \in PendingFor(i) :
                    Patched(c) =>
                       current_dep_version(TextOf(i, pending_updates[k].patched_content), c)
                          = Some(output.latest_versions[c])

\* The fetch of the first tracked crate failed, the second crate's succeeded;
\* both are stale in the first manifest, which is queued with the second
\* crate at its latest version and the first as it was.
C24_Witness ==
    /\ dpc = "apply"
    /\ ~input.fetch[TRACKED_CRATES[1]].some
    /\ input.fetch[TRACKED_CRATES[2]] = Some(<<"2">>)
    /\ input.files[1] = Some(<<HeaderLine(<<"dependencies">>),
                               EntryLine("p", StringValue(OldVersion), NoDecor),
                               EntryLine("q", StringValue(OldVersion), NoDecor)>>)
    /\ Len(pending_updates) >= 1
    /\ FileOf(pending_updates[1]) = 1
    /\ TextOf(1, pending_updates[1].patched_content) =
          <<HeaderLine(<<"dependencies">>),
            EntryLine("p", StringValue(<<"2">>), NoDecor),
            EntryLine("q", StringValue(OldVersion), NoDecor)>>

\* What the remote of managed file i held when the first run began.
RemoteAtStart(i) == IF i \in input.unpulled THEN OtherContent ELSE OldContent

\* Two manifest texts that differ at most in the version values of the
\* tracked crates: the same lines, and on a line that holds a tracked crate's
\* version the same key, form of value, other fields and trailing comment.
SameButVersions(before, after) ==
    /\ Len(after) = Len(before)
    /\ \A j \in DOMAIN before :
          IF \E c \in Tracked : HoldsVersionOf(before, c, j)
          THEN /\ after[j].kind = "entry"
               /\ after[j].key = before[j].key
               /\ after[j].value.type = before[j].value.type
               /\ FieldKeys(after[j].value) = FieldKeys(before[j].value)
               /\ OtherFields(after[j].value) = OtherFields(before[j].value)
               /\ after[j].decor = before[j].decor
          ELSE after[j] = before[j]

\* A workflow text without the version literals of the sdk crate.
Skeleton(text) ==
    LET K == {j \in 1..Len(text) : ~InValue(text, CrateChars(SdkCrate), j)}
    IN  [n \in 1..Cardinality(K) |->
            text[CHOOSE j \in K : Cardinality({k \in K : k <= j}) = n]]

\* C22: every commit the first run lands on a repository, through the
\* contents API or by a push, carries for its file the text the repository
\* held for that file when the run began, but for the version values of the
\* tracked crates (manifest) or the sdk's version literals (workflow file).
C22_PersistedContentDiffersOnlyInVersions ==
    stage = "first" =>
        \A k \in DOMAIN landed :
            LET i == CHOOSE n \in 1..Len(ScanOrder) :
                        /\ ScanOrder[n].repo = landed[k].repo
                        /\ ScanOrder[n].file_path = landed[k].file
                before == TextOf(i, RemoteAtStart(i))
                after == TextOf(i, landed[k].content)
            IN  IF IsCargoFile(ScanOrder[i])
                THEN SameButVersions(before, after)
                ELSE Skeleton(after) = Skeleton(before)

\* C25: when the first run was not a dry run and every one of its pending
\* updates was committed, the second run, with the same latest versions,
\* queues no pending update and calls commit_file for nothing.
C25_SecondRunFindsNothingStale ==
    (/\ stage = "second"
     /\ ~dry_run
     /\ output.previous.errors = <<>>
     /\ Len(output.previous.committed) = Len(output.previous.pending_updates)) =>
        /\ pending_updates = <<>>
        /\ calls = Len(output.previous.pending_updates)
        /\ committed = <<>>

====
